---- MODULE Spec2Model ----
(***************************************************************************)
(* ResolveAi marketplace client: the views' fetch / mutate / reconcile     *)
(* logic (src/views.tsx), the price rendering of the presentation          *)
(* primitives (src/components.tsx) and the text-generation client          *)
(* (src/geminiService.ts), against a table-oriented remote gateway.        *)
(*                                                                         *)
(* A nullable value of the source (T | null) is a sequence of length 0     *)
(* or 1: Null is <<>>, a present value v is <<v>>.                         *)
(***************************************************************************)
EXTENDS Integers, Sequences, FiniteSets, TLC

VARIABLES
  db_services,        \* remote table `services`: sequence of rows
  db_serviceSeq,      \* number of ids the gateway has issued for `services`
  db_contracts,       \* remote table `contracts`: sequence of rows, in insertion order
  db_profStatus,      \* remote `profiles.status` of the professional
  currentUser,        \* the signed-in profile handed to every view
  page,               \* the screen the router shows
  wz,                 \* ContractFlowPage: its useState cells
  wzFetch,            \* ContractFlowPage.fetchContractData: position and locals
  wzPending,          \* contract inserts issued and not yet answered
  wzRun,              \* number of ContractFlowPage mounts so far
  wzRows,             \* rows inserted into `contracts` by the current mount
  hist,               \* HistoryPage: its useState cells and fetch position
  dash,               \* ProfessionalDashboardPage: its useState cells
  dashPending,        \* dashboard calls issued and not yet answered
  priceInput,         \* the text last typed into the dashboard's price input
  aiConfigured,       \* geminiService: whether API_KEY was set (ai is not null)
  db_notifications,   \* remote table `notifications`
  ntf,                \* NotificationsPage: its local notification list
  ntfPending,         \* mark-read updates issued and not yet answered
  db_reviews,         \* remote table `reviews`
  pv,                 \* ProfessionalProfileViewPage: its useState cells
  pvPending,          \* review inserts issued and not yet answered
  gen,                \* one call of generateServiceDescription: inputs and result
  home,               \* ClientHomePage: its useState cells
  homePending,        \* reads of the client home issued and not yet answered
  db_profiles,        \* remote table `profiles`: rows written by the profile form
  edit,               \* ProfileEditPage: its useState cells
  editPending,        \* profile saves issued and not yet answered
  auth,               \* OnboardingPage: its useState cells
  authPending         \* auth calls issued and not yet answered

vars == <<db_services, db_serviceSeq, db_contracts, db_profStatus, currentUser, page,
          wz, wzFetch, wzPending, wzRun, wzRows, hist,
          dash, dashPending, priceInput, aiConfigured,
          db_notifications, ntf, ntfPending, db_reviews, pv, pvPending, gen,
          home, homePending, db_profiles, edit, editPending, auth, authPending>>

dbVars == <<db_services, db_serviceSeq, db_contracts, db_profStatus>>
wzVars == <<wz, wzFetch, wzPending, wzRun, wzRows>>
dashVars == <<dash, dashPending, priceInput, aiConfigured>>
ntfVars == <<db_notifications, ntf, ntfPending>>
pvVars == <<db_reviews, pv, pvPending>>
homeVars == <<home, homePending>>
editVars == <<db_profiles, edit, editPending>>
authVars == <<auth, authPending>>
\* what the contract flow and the history view leave alone
otherViews == <<dashVars, ntfVars, pvVars, gen, homeVars, editVars, authVars>>

(***************************************************************************)
(* Bounds                                                                  *)
(***************************************************************************)
MaxPending == 2      \* contract inserts in flight at once
MaxRuns == 2         \* wizard mounts in one behaviour
MaxStep == 5         \* cap of the wizard's step counter
MaxServices == 2     \* ids the gateway issues for `services`
MaxDashPending == 1  \* dashboard mutations in flight at once
MaxReviews == 3      \* rows of `reviews`
MaxProfiles == 1     \* rows of `profiles`

(***************************************************************************)
(* Domain model (types)                                                    *)
(***************************************************************************)
Null == <<>>
Some(v) == <<v>>
IsNull(o) == Len(o) = 0
Val(o) == o[1]

UserType == {"CLIENT", "PROFESSIONAL"}
ServicePricingType == {"FIXED", "HOURLY"}
ContractStatus == {"REQUESTED", "ACCEPTED", "IN_PROGRESS", "COMPLETED",
                   "CANCELLED", "PENDING_PAYMENT"}
ProfessionalStatus == {"Available", "Busy", "Away"}

ClientUser == [id |-> "u1", userType |-> "CLIENT"]
ProfessionalUser == [id |-> "p1", userType |-> "PROFESSIONAL"]

Prices == {50, 80}
Texts == {"", "de manha"}
PaymentMethods == {"pix", "card"}

\* services row as the client reads and writes it
ServiceRow(id, price, pricingType) ==
  [id |-> id, professionalId |-> "p1", title |-> <<"T", "C">>,
   categoryId |-> "cat1", price |-> price, pricingType |-> pricingType]

\* rows of a table with a given id
RowsById(tbl, id) == {i \in 1..Len(tbl) : tbl[i].id = id}

\* .eq('id', id).single(): the row, or Null when there is not exactly one
Single(tbl, id) ==
  IF Cardinality(RowsById(tbl, id)) = 1
    THEN Some(tbl[CHOOSE i \in RowsById(tbl, id) : TRUE])
    ELSE Null

(***************************************************************************)
(* ContractFlowPage                                                        *)
(***************************************************************************)
\* navigation parameters handed to ContractFlowPage
NewParams == [kind |-> "new", serviceId |-> 1, professionalId |-> "p1", contractId |-> 0]
ExistingParams(cid) == [kind |-> "existing", serviceId |-> 0, professionalId |-> "", contractId |-> cid]
NoParams == [kind |-> "none", serviceId |-> 0, professionalId |-> "", contractId |-> 0]

\* the useState initial values of ContractFlowPage
WizardInitial(params) ==
  [params |-> params, step |-> 1, service |-> Null, professional |-> Null,
   contractDetails |-> "", paymentMethod |-> Null,
   isContractConfirmed |-> FALSE, error |-> FALSE, loading |-> TRUE,
   existingContract |-> Null]

\* the state of a view that is not mounted
WizardUnmounted == WizardInitial(NoParams)
FetchIdle == [pc |-> "done", serviceData |-> Null]

\* fetchContractData up to its first await (or to its end when it has none)
FetchEntryPc(params) ==
  IF params.kind = "existing" THEN "contract"
  ELSE IF params.kind = "new" THEN "service"
  ELSE "done"

FetchEntryState(params) ==
  IF params.kind = "none"
    THEN [WizardInitial(params) EXCEPT !.error = TRUE, !.loading = FALSE]
    ELSE WizardInitial(params)

\* the payload with the seeded chat message left out
NewContractDataNoSeed(user, professional, service, details) ==
  [clientId |-> user.id,
   professionalId |-> professional.id,
   serviceId |-> service.id,
   serviceTitle |-> service.title,
   priceAgreed |-> service.price,
   status |-> "REQUESTED",
   chatMessages |-> <<>>]

\* the payload built by handleNextStep for a new contract
NewContractData(user, professional, service, details) ==
  [clientId |-> user.id,
   professionalId |-> professional.id,
   serviceId |-> service.id,
   serviceTitle |-> service.title,
   priceAgreed |-> service.price,
   status |-> "REQUESTED",
   chatMessages |-> <<[senderId |-> user.id, text |-> details]>>]

\* an existing contract re-priced from the service on confirmation
ExistingContractReprice(tbl, contract, service) ==
  [i \in 1..Len(tbl) |->
     IF tbl[i].id = contract.id THEN [tbl[i] EXCEPT !.priceAgreed = service.price]
     ELSE tbl[i]]

\* the write handleNextStep makes to `contracts` for an existing contract
ExistingContractWrite(tbl, contract, service) == tbl

\* gateway: insert(row).select().single() on `contracts`
ContractsInsert(tbl, data) == Append(tbl, [id |-> Len(tbl) + 1] @@ data)

\* the confirm button's disabled attribute
NextDisabled(w, user) ==
  w.step = 3 /\ IsNull(w.paymentMethod) /\ user.userType = "CLIENT"
    /\ IsNull(w.existingContract)

\* the Back button's disabled attribute
BackDisabled(w) == w.step = 1 \/ ~IsNull(w.existingContract)

\* the wizard body is rendered (none of the render guards returned early)
WizardInteractive ==
  /\ page = "CONTRACT_FLOW"
  /\ ~wz.loading /\ ~wz.error
  /\ ~IsNull(wz.service) /\ ~IsNull(wz.professional)
  /\ ~wz.isContractConfirmed

\* mounting ContractFlowPage with params: useState initialisers and the effect
MountWizard(params) ==
  /\ page' = "CONTRACT_FLOW"
  /\ wz' = FetchEntryState(params)
  /\ wzFetch' = [pc |-> FetchEntryPc(params), serviceData |-> Null]
  /\ wzRun' = wzRun + 1
  /\ wzRows' = 0

UnmountWizard ==
  /\ wz' = WizardUnmounted
  /\ wzFetch' = FetchIdle

\* the text of the newest message of a contract
LastMessageText(contract) ==
  IF Len(contract.chatMessages) > 0
    THEN contract.chatMessages[Len(contract.chatMessages)].text ELSE ""

\* (contractData.chatMessages?.[0]?.text) || ''
FirstMessageText(contract) ==
  IF Len(contract.chatMessages) > 0 THEN contract.chatMessages[1].text ELSE ""

\* the step-1 panel is rendered: step === 1 && !existingContract
Step1Shown(w) == w.step = 1 /\ IsNull(w.existingContract)

\* fetchContractData, existing contract: the joined read of `contracts` answers
WzFetchContract ==
  /\ page = "CONTRACT_FLOW" /\ wzFetch.pc = "contract"
  /\ \E failed \in BOOLEAN :
       LET c == Single(db_contracts, wz.params.contractId)
           s == IF IsNull(c) THEN Null ELSE Single(db_services, Val(c).serviceId)
       IN  IF failed \/ IsNull(c)
             THEN wz' = [wz EXCEPT !.error = TRUE, !.loading = FALSE]
           ELSE IF IsNull(s)
             \* the spread of a null joined service throws: the fetch stops
             \* after setExistingContract and never clears loading
             THEN wz' = [wz EXCEPT !.existingContract = c]
             ELSE wz' = [wz EXCEPT
                       !.existingContract = c,
                       !.service = s,
                       !.professional = Some([id |-> Val(c).professionalId]),
                       !.contractDetails = FirstMessageText(Val(c)),
                       !.step = 2,
                       !.loading = FALSE]
  /\ wzFetch' = FetchIdle
  /\ UNCHANGED <<dbVars, currentUser, page, wzPending, wzRun, wzRows, hist, otherViews>>

\* fetchContractData, new contract: the read of `services` answers
WzFetchService ==
  /\ page = "CONTRACT_FLOW" /\ wzFetch.pc = "service"
  /\ \E failed \in BOOLEAN :
       wzFetch' = [pc |-> "prof",
                   serviceData |-> IF failed THEN Null
                                   ELSE Single(db_services, wz.params.serviceId)]
  /\ UNCHANGED <<dbVars, currentUser, page, wz, wzPending, wzRun, wzRows, hist, otherViews>>

\* fetchContractData, new contract: the read of `profiles` answers
WzFetchProfessional ==
  /\ page = "CONTRACT_FLOW" /\ wzFetch.pc = "prof"
  /\ \E failed \in BOOLEAN :
       wz' = [wz EXCEPT
                !.service = wzFetch.serviceData,
                !.professional = IF failed THEN Null
                                 ELSE Some([id |-> wz.params.professionalId]),
                !.error = IsNull(wzFetch.serviceData) \/ failed,
                !.loading = FALSE]
  /\ wzFetch' = FetchIdle
  /\ UNCHANGED <<dbVars, currentUser, page, wzPending, wzRun, wzRows, hist, otherViews>>

\* the step-1 text area
WzSetContractDetails ==
  /\ WizardInteractive /\ wz.step = 1 /\ IsNull(wz.existingContract)
  /\ \E t \in Texts : wz' = [wz EXCEPT !.contractDetails = t]
  /\ UNCHANGED <<dbVars, currentUser, page, wzFetch, wzPending, wzRun, wzRows, hist, otherViews>>

\* the step-3 payment buttons
WzSetPaymentMethod ==
  /\ WizardInteractive /\ wz.step = 3 /\ currentUser.userType = "CLIENT"
  /\ IsNull(wz.existingContract)
  /\ \E m \in PaymentMethods : wz' = [wz EXCEPT !.paymentMethod = Some(m)]
  /\ UNCHANGED <<dbVars, currentUser, page, wzFetch, wzPending, wzRun, wzRows, hist, otherViews>>

\* the final step without its test of the user's role
FinalStepAnyUser(w, user) ==
  w.step = 3 /\ (~IsNull(w.paymentMethod) \/ ~IsNull(w.existingContract))

\* handleNextStep reaches the final client step
FinalClientStep(w, user) ==
  w.step = 3 /\ (~IsNull(w.paymentMethod) \/ ~IsNull(w.existingContract))
    /\ user.userType = "CLIENT"

\* handleNextStep, up to the await of the insert
handleNextStep ==
  /\ WizardInteractive /\ ~NextDisabled(wz, currentUser)
  /\ IF FinalClientStep(wz, currentUser)
       THEN IF IsNull(wz.existingContract)
              THEN /\ Len(wzPending) < MaxPending
                   /\ wzPending' = Append(wzPending,
                        [run |-> wzRun,
                         data |-> NewContractData(currentUser, Val(wz.professional),
                                                  Val(wz.service), wz.contractDetails)])
                   /\ UNCHANGED <<wz, db_contracts>>
              ELSE /\ db_contracts' = ExistingContractWrite(db_contracts,
                                         Val(wz.existingContract), Val(wz.service))
                   /\ wz' = [wz EXCEPT !.isContractConfirmed = TRUE]
                   /\ UNCHANGED wzPending
       ELSE /\ wz' = [wz EXCEPT !.step = IF wz.step < 3 THEN wz.step + 1 ELSE wz.step]
            /\ UNCHANGED <<wzPending, db_contracts>>
  /\ UNCHANGED <<db_services, db_serviceSeq, db_profStatus, currentUser, page, wzFetch, wzRun, wzRows, hist, otherViews>>

\* the step handlePreviousStep moves to
PreviousStep(step) == IF step > 1 THEN step + 1 ELSE step

handlePreviousStep ==
  /\ WizardInteractive /\ ~BackDisabled(wz)
  /\ PreviousStep(wz.step) <= MaxStep
  /\ wz' = [wz EXCEPT !.step = PreviousStep(wz.step)]
  /\ UNCHANGED <<dbVars, currentUser, page, wzFetch, wzPending, wzRun, wzRows, hist, otherViews>>

RemoveAt(s, i) == SubSeq(s, 1, i - 1) \o SubSeq(s, i + 1, Len(s))

\* handleNextStep after the await: the gateway answers one pending insert
WzInsertAnswered ==
  \E i \in 1..Len(wzPending), failed \in BOOLEAN :
    LET req == wzPending[i]
        mounted == page = "CONTRACT_FLOW" /\ req.run = wzRun
    IN  \* contracts.serviceId is a foreign key: no row for a deleted service
        /\ failed \/ ~IsNull(Single(db_services, req.data.serviceId))
        /\ wzPending' = RemoveAt(wzPending, i)
        /\ db_contracts' = IF failed THEN db_contracts
                           ELSE ContractsInsert(db_contracts, req.data)
        /\ wzRows' = IF ~failed /\ req.run = wzRun THEN wzRows + 1 ELSE wzRows
        /\ wz' = IF ~mounted THEN wz
                 ELSE IF failed THEN [wz EXCEPT !.error = TRUE]
                 ELSE [wz EXCEPT !.isContractConfirmed = TRUE]
        /\ UNCHANGED <<db_services, db_serviceSeq, db_profStatus, currentUser, page, wzFetch, wzRun, hist, otherViews>>


\* the confirmed screen's button: setCurrentPage(Page.HISTORY)
WzGoHistory ==
  /\ page = "CONTRACT_FLOW" /\ ~wz.loading /\ ~wz.error
  /\ ~IsNull(wz.service) /\ ~IsNull(wz.professional)
  /\ wz.isContractConfirmed
  /\ page' = "HISTORY"
  /\ UnmountWizard
  /\ hist' = [loading |-> TRUE, error |-> FALSE, contracts |-> <<>>, pc |-> "fetch"]
  /\ UNCHANGED <<dbVars, currentUser, wzPending, wzRun, wzRows, otherViews>>

\* the error alert's onClose: setCurrentPage(Page.CLIENT_HOME)
WzDismissError ==
  /\ page = "CONTRACT_FLOW" /\ ~wz.loading /\ wz.error
  /\ page' = "CLIENT_HOME"
  /\ UnmountWizard
  /\ UNCHANGED <<dbVars, currentUser, wzPending, wzRun, wzRows, hist, otherViews>>

\* a service card's onSelect on the profile view:
\* setCurrentPage(Page.CONTRACT_FLOW, {serviceId, professionalId})
OpenWizardForService ==
  /\ page = "CLIENT_HOME" /\ wzRun < MaxRuns
  /\ MountWizard(NewParams)
  /\ UNCHANGED <<dbVars, currentUser, wzPending, hist, otherViews>>

(***************************************************************************)
(* HistoryPage                                                             *)
(***************************************************************************)
HistoryUnmounted == [loading |-> TRUE, error |-> FALSE, contracts |-> <<>>, pc |-> "done"]

RECURSIVE SelectSeq2(_, _)
\* Array.filter over a sequence of rows by a set of admitted client/professional ids
SelectSeq2(s, keep) ==
  IF s = <<>> THEN <<>>
  ELSE IF keep[Head(s).id] THEN <<Head(s)>> \o SelectSeq2(Tail(s), keep)
  ELSE SelectSeq2(Tail(s), keep)

RECURSIVE Reverse(_)
Reverse(s) == IF s = <<>> THEN <<>> ELSE Reverse(Tail(s)) \o <<Head(s)>>

\* the contracts query of fetchContracts: role filter, newest first
ContractsOf(tbl, user) ==
  Reverse(SelectSeq2(tbl,
    [i \in 1..Len(tbl) |->
       IF user.userType = "CLIENT" THEN tbl[i].clientId = user.id
       ELSE tbl[i].professionalId = user.id]))

\* fetchContracts: the read of `contracts` answers
HistFetchContracts ==
  /\ page = "HISTORY" /\ hist.pc = "fetch"
  /\ \E failed \in BOOLEAN :
       hist' = IF failed
                 THEN [hist EXCEPT !.error = TRUE, !.loading = FALSE, !.pc = "done"]
                 ELSE [hist EXCEPT !.contracts = ContractsOf(db_contracts, currentUser),
                                   !.loading = FALSE, !.pc = "done"]
  /\ UNCHANGED <<dbVars, currentUser, page, wzVars, otherViews>>

\* a contract card's onClick: setCurrentPage(Page.CONTRACT_FLOW, {contractId})
HistOpenContract ==
  /\ page = "HISTORY" /\ ~hist.loading /\ ~hist.error /\ wzRun < MaxRuns
  /\ \E i \in 1..Len(hist.contracts) :
       MountWizard(ExistingParams(hist.contracts[i].id))
  /\ hist' = HistoryUnmounted
  /\ UNCHANGED <<dbVars, currentUser, wzPending, otherViews>>

(***************************************************************************)
(* Mutations that reach the gateway from the owning professional's         *)
(* dashboard, running in another browser                                   *)
(***************************************************************************)
\* gateway: update(data).eq('id', id) on `services`
ServicesUpdate(tbl, id, data) ==
  [i \in 1..Len(tbl) |->
     IF tbl[i].id = id
       THEN [tbl[i] EXCEPT !.price = data.price, !.pricingType = data.pricingType,
                           !.title = data.title, !.categoryId = data.categoryId]
       ELSE tbl[i]]

\* gateway: delete().eq('id', id) on `services`
ServicesDelete(tbl, id) == SelectSeq(tbl, LAMBDA r : r.id # id)

\* `contracts.serviceId` is a foreign key to services.id
Referenced(contracts, id) == \E i \in 1..Len(contracts) : contracts[i].serviceId = id

\* handleAddOrUpdateService of the owner: the update of `services` is applied
OwnerUpdatesService ==
  /\ \E i \in 1..Len(db_services), p \in Prices, t \in ServicePricingType :
       LET data == [db_services[i] EXCEPT !.price = p, !.pricingType = t]
       IN  /\ data # db_services[i]
           /\ db_services' = ServicesUpdate(db_services, db_services[i].id, data)
  /\ UNCHANGED <<db_serviceSeq, db_contracts, db_profStatus, currentUser, page, wzVars, hist, otherViews>>

\* deleteService of the owner: the delete of `services` is applied
OwnerDeletesService ==
  /\ \E i \in 1..Len(db_services) :
       /\ ~Referenced(db_contracts, db_services[i].id)
       /\ db_services' = ServicesDelete(db_services, db_services[i].id)
  /\ UNCHANGED <<db_serviceSeq, db_contracts, db_profStatus, currentUser, page, wzVars, hist, otherViews>>

\* handleStatusChange of the owner: the update of `profiles` is applied
OwnerChangesStatus ==
  /\ \E st \in ProfessionalStatus :
       /\ st # db_profStatus
       /\ db_profStatus' = st
  /\ UNCHANGED <<db_services, db_serviceSeq, db_contracts, currentUser, page, wzVars, hist, otherViews>>

(***************************************************************************)
(* Views that are not mounted in a specification                           *)
(***************************************************************************)
DashIdle ==
  /\ dash = <<>> /\ dashPending = <<>> /\ priceInput = <<>> /\ aiConfigured = FALSE
NtfIdle == db_notifications = <<>> /\ ntf = <<>> /\ ntfPending = <<>>
PvIdle == db_reviews = <<>> /\ pv = <<>> /\ pvPending = <<>>
GenIdle == gen = <<>>
HomeIdle == home = <<>> /\ homePending = <<>>
EditIdle == db_profiles = <<>> /\ edit = <<>> /\ editPending = <<>>
AuthIdle == auth = <<>> /\ authPending = <<>>


(***************************************************************************)
(* Specification of the contract flow                                      *)
(***************************************************************************)
\* a contract created earlier by this client code
EarlierContract(price) ==
  [id |-> 1] @@ NewContractData(ClientUser, [id |-> "p1"],
                                ServiceRow(1, price, "FIXED"), "de manha")

InitContract ==
  /\ \E p \in Prices, t \in ServicePricingType :
       db_services = <<ServiceRow(1, p, t)>>
  /\ \E p \in Prices : db_contracts \in {<<>>, <<EarlierContract(p)>>}
  /\ db_serviceSeq = 1
  /\ db_profStatus = "Available"
  /\ currentUser \in {ClientUser, ProfessionalUser}
  /\ page = "CONTRACT_FLOW"
  /\ \E params \in {NewParams, NoParams} \cup {ExistingParams(i) : i \in 1..Len(db_contracts)} :
       /\ wz = FetchEntryState(params)
       /\ wzFetch = [pc |-> FetchEntryPc(params), serviceData |-> Null]
  /\ wzPending = <<>>
  /\ wzRun = 1
  /\ wzRows = 0
  /\ hist = HistoryUnmounted
  /\ DashIdle /\ NtfIdle /\ PvIdle /\ GenIdle
  /\ HomeIdle /\ EditIdle /\ AuthIdle

NextContract ==
  \/ WzFetchContract
  \/ WzFetchService
  \/ WzFetchProfessional
  \/ WzSetContractDetails
  \/ WzSetPaymentMethod
  \/ handleNextStep
  \/ handlePreviousStep
  \/ WzInsertAnswered
  \/ WzGoHistory
  \/ WzDismissError
  \/ OpenWizardForService
  \/ HistFetchContracts
  \/ HistOpenContract
  \/ OwnerUpdatesService
  \/ OwnerDeletesService
  \/ OwnerChangesStatus

SpecContract == InitContract /\ [][NextContract]_vars


(***************************************************************************)
(* Text-generation client (geminiService.ts).  A string is a sequence of   *)
(* characters; a fixed fragment of a message is one element.               *)
(***************************************************************************)
RECURSIVE Join(_, _)
\* Array.prototype.join
Join(list, sep) ==
  IF list = <<>> THEN <<>>
  ELSE IF Len(list) = 1 THEN list[1]
  ELSE list[1] \o sep \o Join(Tail(list), sep)

\* String.prototype.includes
Includes(str, sub) ==
  \E i \in 1..(Len(str) + 1) :
    i + Len(sub) - 1 <= Len(str) /\ SubSeq(str, i, i + Len(sub) - 1) = sub

RECURSIVE TrimStart(_)
TrimStart(str) ==
  IF str # <<>> /\ Head(str) = " " THEN TrimStart(Tail(str)) ELSE str

\* String.prototype.trim
Trim(str) == Reverse(TrimStart(Reverse(TrimStart(str))))

CommaSpace == <<",", " ">>

\* the templated description returned when no credential is configured
FallbackDescription(serviceTitle, keywords) ==
  <<"Descricao otimizada para \"">> \o serviceTitle
    \o <<"\" com palavras-chave: ">> \o Join(keywords, CommaSpace) \o <<".">>

EmptyResponseMessage == <<"Nao foi possivel gerar uma descricao no momento.">>
InvalidKeyMessage == <<"Erro: Chave da API Gemini invalida. Verifique suas credenciais.">>
GenericErrorMessage == <<"Ocorreu um erro ao tentar gerar a descricao. Tente novamente mais tarde.">>
ApiKeyNotValid == <<"API key not valid">>

\* what ai.models.generateContent can do: answer with a text (or without
\* one), or throw an Error with a message, or throw something else
ModelOutcomes ==
  {[kind |-> "response", text |-> t, isError |-> FALSE, message |-> <<>>] :
      t \in {Null, Some(<<>>), Some(<<"o", "k">>), Some(<<" ", "o", "k", " ">>)}}
  \cup
  {[kind |-> "throw", text |-> Null, isError |-> e, message |-> m] :
      e \in BOOLEAN,
      m \in {<<"4", "0", "0", " ">> \o ApiKeyNotValid, <<"t", "i", "m", "e", "o", "u", "t">>}}

Returned(str) == [kind |-> "return", value |-> str]
Raised == [kind |-> "throw", value |-> <<>>]

\* `x || y` on an optional string: undefined and '' are falsy
OrElse(optional, default) ==
  IF IsNull(optional) \/ Val(optional) = <<>> THEN default ELSE Val(optional)

\* the function without its `currentDescription ||`
generateAlwaysTemplate(ai, serviceTitle, keywords, currentDescription, outcome) ==
  IF ~ai
    THEN Returned(FallbackDescription(serviceTitle, keywords))
  ELSE IF outcome.kind = "response"
    THEN IF ~IsNull(outcome.text) /\ Val(outcome.text) # <<>>
           THEN Returned(Trim(Val(outcome.text)))
           ELSE Returned(EmptyResponseMessage)
  ELSE IF outcome.isError /\ Includes(outcome.message, ApiKeyNotValid)
    THEN Returned(InvalidKeyMessage)
  ELSE Returned(GenericErrorMessage)

\* the function without its try/catch
generateUncaught(ai, serviceTitle, keywords, currentDescription, outcome) ==
  IF ~ai
    THEN Returned(OrElse(currentDescription, FallbackDescription(serviceTitle, keywords)))
  ELSE IF outcome.kind = "response"
    THEN IF ~IsNull(outcome.text) /\ Val(outcome.text) # <<>>
           THEN Returned(Trim(Val(outcome.text)))
           ELSE Returned(EmptyResponseMessage)
  ELSE Raised

\* generateServiceDescription: what the promise settles to
generateServiceDescription(ai, serviceTitle, keywords, currentDescription, outcome) ==
  IF ~ai
    THEN Returned(OrElse(currentDescription, FallbackDescription(serviceTitle, keywords)))
  ELSE IF outcome.kind = "response"
    THEN IF ~IsNull(outcome.text) /\ Val(outcome.text) # <<>>
           THEN Returned(Trim(Val(outcome.text)))
           ELSE Returned(EmptyResponseMessage)
  ELSE IF outcome.isError /\ Includes(outcome.message, ApiKeyNotValid)
    THEN Returned(InvalidKeyMessage)
  ELSE Returned(GenericErrorMessage)

Titles == {<<"T", "C">>, <<"X">>}
KeywordLists == {<<<<"r">>>>, <<<<"r">>, <<"s">>>>, <<<<"s">>, <<"r">>>>}
Descriptions == {Null, Some(<<>>), Some(<<"D">>)}

\* one call of generateServiceDescription
GenCall ==
  /\ IsNull(gen.result)
  /\ \E outcome \in ModelOutcomes :
       gen' = [gen EXCEPT !.result =
                 Some(generateServiceDescription(gen.ai, gen.serviceTitle, gen.keywords,
                                                 gen.currentDescription, outcome))]
  /\ UNCHANGED <<dbVars, currentUser, page, wzVars, hist, dashVars, ntfVars, pvVars,
                 homeVars, editVars, authVars>>

InitGen ==
  /\ gen \in [ai : BOOLEAN, serviceTitle : Titles, keywords : KeywordLists,
              currentDescription : Descriptions, result : {Null}]
  /\ db_services = <<>> /\ db_serviceSeq = 0 /\ db_contracts = <<>>
  /\ db_profStatus = "Available"
  /\ currentUser = ProfessionalUser
  /\ page = "PROFESSIONAL_DASHBOARD"
  /\ wz = WizardUnmounted /\ wzFetch = FetchIdle /\ wzPending = <<>>
  /\ wzRun = 0 /\ wzRows = 0
  /\ hist = HistoryUnmounted
  /\ DashIdle /\ NtfIdle /\ PvIdle
  /\ HomeIdle /\ EditIdle /\ AuthIdle

NextGen == GenCall

SpecGen == InitGen /\ [][NextGen]_vars

\* C7 as stated: with no credential the result is, for every input, the
\* templated fallback, which contains the title and the comma-joined keywords.
C7_AlwaysTemplate ==
  (~gen.ai /\ ~IsNull(gen.result)) =>
     /\ Val(gen.result) = Returned(FallbackDescription(gen.serviceTitle, gen.keywords))
     /\ Includes(Val(gen.result).value, gen.serviceTitle)
     /\ Includes(Val(gen.result).value, Join(gen.keywords, CommaSpace))

\* C7 amended: with no credential the function returns the existing
\* description unchanged when one is given and is not empty, and otherwise a
\* string that holds the title in quotes followed, after the keyword label,
\* by the keywords joined with ", " and a full stop.
C7_FallbackOrCurrent ==
  (~gen.ai /\ ~IsNull(gen.result)) =>
     /\ Val(gen.result).kind = "return"
     /\ IF ~IsNull(gen.currentDescription) /\ Val(gen.currentDescription) # <<>>
          THEN Val(gen.result).value = Val(gen.currentDescription)
          ELSE LET v == Val(gen.result).value
                   n == Len(gen.serviceTitle)
               IN  /\ Includes(v, gen.serviceTitle)
                   /\ Includes(v, Join(gen.keywords, CommaSpace))
                   /\ SubSeq(v, 2, n + 1) = gen.serviceTitle
                   /\ v[Len(v)] = "."
                   /\ Len(v) = n + 3 + 3 * Len(gen.keywords) - 2

\* no credential, no usable existing description, two keywords: the template
C7_Witness ==
  /\ ~gen.ai /\ ~IsNull(gen.result)
  /\ gen.currentDescription = Some(<<>>)
  /\ Len(gen.keywords) = 2
  /\ Includes(Val(gen.result).value, <<"r", ",", " ", "s">>)

(***************************************************************************)
(* ProfessionalDashboardPage                                               *)
(***************************************************************************)
Categories == <<"cat1", "cat2">>
DashReads == {"services", "notifications", "contracts", "categories"}

\* the professional handed to the dashboard as currentUser
DashUser(status) == [id |-> "p1", userType |-> "PROFESSIONAL", status |-> status]

\* categories[0]?.id
FirstCategory(categories) == IF categories = <<>> THEN Null ELSE Some(categories[1])

\* the form the "add service" button and the reset after a save install
BlankForm(categories) ==
  [title |-> <<>>, description |-> <<>>, categoryId |-> FirstCategory(categories),
   price |-> Some(0), pricingType |-> "FIXED", tags |-> <<>>]

\* the useState initial values of ProfessionalDashboardPage
DashInitial(user) ==
  [services |-> <<>>, status |-> user.status, showAddServiceModal |-> FALSE,
   editingService |-> Null, notifications |-> <<>>, upcomingContracts |-> <<>>,
   categories |-> <<>>,
   newServiceForm |-> [BlankForm(<<>>) EXCEPT !.categoryId = Null],
   isGeneratingDesc |-> FALSE, loading |-> TRUE, formError |-> Null,
   fetch |-> [t \in DashReads |-> "pending"]]

\* digits of a decimal numeral
DigitValue(c) ==
  CASE c = "0" -> 0 [] c = "1" -> 1 [] c = "2" -> 2 [] c = "3" -> 3 [] c = "4" -> 4
    [] c = "5" -> 5 [] c = "6" -> 6 [] c = "7" -> 7 [] c = "8" -> 8 [] c = "9" -> 9
    [] OTHER -> -1

RECURSIVE LeadingDigits(_, _)
LeadingDigits(str, acc) ==
  IF str = <<>> \/ DigitValue(Head(str)) < 0 THEN acc
  ELSE LeadingDigits(Tail(str), acc * 10 + DigitValue(Head(str)))

\* parseFloat on the texts a number input delivers: Null stands for NaN
ParseFloat(str) ==
  IF str = <<>> \/ DigitValue(Head(str)) < 0 THEN Null
  ELSE Some(LeadingDigits(str, 0))

\* `parseFloat(e.target.value) || 0` of the price input
PriceOfInput(str) ==
  IF IsNull(ParseFloat(str)) \/ Val(ParseFloat(str)) = 0 THEN 0
  ELSE Val(ParseFloat(str))

PriceTexts == {<<>>, <<"5", "0">>}

\* the validation of handleAddOrUpdateService
FormRejected(form) ==
  form.title = <<>> \/ IsNull(form.categoryId) \/ IsNull(form.price)

\* serviceData of handleAddOrUpdateService (the columns the tables of this
\* model keep)
ServiceData(user, form) ==
  [professionalId |-> user.id, title |-> form.title,
   categoryId |-> Val(form.categoryId), price |-> Val(form.price),
   pricingType |-> form.pricingType]

\* gateway: insert(row).select().single() on `services`
ServicesInsert(tbl, id, data) == Append(tbl, [id |-> id] @@ data)

\* a map that puts the row in every position
ReplaceEvery(list, id, row) == [i \in 1..Len(list) |-> row]

\* prev.map(s => s.id === id ? row : s)
ReplaceById(list, id, row) ==
  [i \in 1..Len(list) |-> IF list[i].id = id THEN row ELSE list[i]]

\* the dashboard body is rendered
DashReady == page = "PROFESSIONAL_DASHBOARD" /\ ~dash.loading
DashFormShown == DashReady /\ dash.showAddServiceModal

nonDash == <<db_contracts, page, wzVars, hist, aiConfigured, ntfVars, pvVars, gen,
            homeVars, editVars, authVars>>

\* fetchData: one of the four concurrent reads answers; when the last one
\* has answered, the results are applied and loading ends
DashReadAnswered ==
  /\ page = "PROFESSIONAL_DASHBOARD" /\ dash.loading
  /\ \E t \in DashReads, failed \in BOOLEAN :
       /\ dash.fetch[t] = "pending"
       /\ LET d == [dash EXCEPT
                      !.fetch[t] = IF failed THEN "error" ELSE "ok",
                      !.services = IF t = "services" /\ ~failed
                                     THEN SelectSeq(db_services,
                                            LAMBDA r : r.professionalId = currentUser.id)
                                     ELSE @,
                      !.notifications = IF t = "notifications" /\ ~failed
                                          THEN db_notifications ELSE @,
                      !.upcomingContracts =
                         IF t = "contracts" /\ ~failed
                           THEN SelectSeq(db_contracts,
                                  LAMBDA r : r.professionalId = currentUser.id
                                             /\ r.status \in {"REQUESTED", "ACCEPTED"})
                           ELSE @,
                      !.categories = IF t = "categories" /\ ~failed THEN Categories ELSE @]
          IN  dash' = IF \A u \in DashReads : d.fetch[u] # "pending"
                        THEN [d EXCEPT !.status = currentUser.status, !.loading = FALSE,
                                       !.fetch = [u \in DashReads |-> "done"]]
                        ELSE d
  /\ UNCHANGED <<db_services, db_serviceSeq, db_profStatus, currentUser, dashPending,
                 priceInput, nonDash>>

\* the "add service" button
OpenAddModal ==
  /\ DashReady
  /\ dash' = [dash EXCEPT !.editingService = Null,
                          !.newServiceForm = BlankForm(dash.categories),
                          !.showAddServiceModal = TRUE,
                          !.formError = Null]
  /\ priceInput' = Null
  /\ UNCHANGED <<db_services, db_serviceSeq, db_profStatus, currentUser, dashPending, nonDash>>

\* openEditModal(service)
openEditModal ==
  /\ DashReady
  /\ \E i \in 1..Len(dash.services) :
       LET service == dash.services[i]
       IN  dash' = [dash EXCEPT
                      !.editingService = Some(service),
                      !.newServiceForm =
                         [title |-> service.title, description |-> <<>>,
                          categoryId |-> Some(service.categoryId),
                          price |-> Some(service.price),
                          pricingType |-> service.pricingType, tags |-> <<>>],
                      !.showAddServiceModal = TRUE,
                      !.formError = Null]
  /\ priceInput' = Null
  /\ UNCHANGED <<db_services, db_serviceSeq, db_profStatus, currentUser, dashPending, nonDash>>

\* the modal's close button and the form's cancel button
CloseServiceModal ==
  /\ DashFormShown
  /\ dash' = [dash EXCEPT !.showAddServiceModal = FALSE]
  /\ UNCHANGED <<db_services, db_serviceSeq, db_profStatus, currentUser, dashPending,
                 priceInput, nonDash>>

\* the title input
SetFormTitle ==
  /\ DashFormShown
  /\ \E t \in {<<>>, <<"T", "C">>} : dash' = [dash EXCEPT !.newServiceForm.title = t]
  /\ UNCHANGED <<db_services, db_serviceSeq, db_profStatus, currentUser, dashPending,
                 priceInput, nonDash>>

\* the category select: its options are the fetched categories
SetFormCategory ==
  /\ DashFormShown
  /\ \E i \in 1..Len(dash.categories) :
       dash' = [dash EXCEPT !.newServiceForm.categoryId = Some(dash.categories[i])]
  /\ UNCHANGED <<db_services, db_serviceSeq, db_profStatus, currentUser, dashPending,
                 priceInput, nonDash>>

\* the price input
SetFormPrice ==
  /\ DashFormShown
  /\ \E str \in PriceTexts :
       /\ dash' = [dash EXCEPT !.newServiceForm.price = Some(PriceOfInput(str))]
       /\ priceInput' = Some(str)
  /\ UNCHANGED <<db_services, db_serviceSeq, db_profStatus, currentUser, dashPending, nonDash>>

\* the pricing type select
SetFormPricingType ==
  /\ DashFormShown
  /\ \E t \in ServicePricingType : dash' = [dash EXCEPT !.newServiceForm.pricingType = t]
  /\ UNCHANGED <<db_services, db_serviceSeq, db_profStatus, currentUser, dashPending,
                 priceInput, nonDash>>

\* the form alert's onClose
DismissFormError ==
  /\ DashFormShown /\ ~IsNull(dash.formError)
  /\ dash' = [dash EXCEPT !.formError = Null]
  /\ UNCHANGED <<db_services, db_serviceSeq, db_profStatus, currentUser, dashPending,
                 priceInput, nonDash>>

\* ids the gateway may still issue for `services`
InsertsInFlight == Cardinality({i \in 1..Len(dashPending) : dashPending[i].kind = "insert"})

\* handleAddOrUpdateService, up to the await of the update or insert.  The
\* continuation keeps the editingService, formError and categories of the
\* render in which the form was submitted.
handleAddOrUpdateService ==
  /\ DashFormShown
  /\ IF FormRejected(dash.newServiceForm)
       THEN /\ dash' = [dash EXCEPT !.formError = Some("required")]
            /\ UNCHANGED dashPending
       ELSE /\ Len(dashPending) < MaxDashPending
            /\ IsNull(dash.editingService) => db_serviceSeq + InsertsInFlight < MaxServices
            /\ dash' = [dash EXCEPT !.formError = Null]
            /\ dashPending' = Append(dashPending,
                 [kind |-> IF IsNull(dash.editingService) THEN "insert" ELSE "update",
                  id |-> IF IsNull(dash.editingService) THEN 0
                         ELSE Val(dash.editingService).id,
                  data |-> ServiceData(currentUser, dash.newServiceForm),
                  formError |-> dash.formError,
                  categories |-> dash.categories])
  /\ UNCHANGED <<db_services, db_serviceSeq, db_profStatus, currentUser, priceInput, nonDash>>

\* handleAddOrUpdateService after the await: the gateway answers
ServiceSaveAnswered ==
  \E i \in 1..Len(dashPending), failed \in BOOLEAN :
    LET req == dashPending[i]
        mounted == page = "PROFESSIONAL_DASHBOARD"
        missing == req.kind = "update" /\ IsNull(Single(db_services, req.id))
        ok == ~failed /\ ~missing
        newId == db_serviceSeq + 1
        row == IF req.kind = "insert" THEN [id |-> newId] @@ req.data
               ELSE [id |-> req.id] @@ req.data
        patched == IF ~ok THEN dash
                   ELSE IF req.kind = "update"
                     THEN [dash EXCEPT !.services = ReplaceById(@, req.id, row),
                                       !.showAddServiceModal = FALSE]
                     ELSE [dash EXCEPT !.services = <<row>> \o @,
                                       !.showAddServiceModal = FALSE]
        failedState == IF ok THEN patched ELSE [patched EXCEPT !.formError = Some("remote")]
    IN  /\ req.kind \in {"insert", "update"}
        /\ dashPending' = RemoveAt(dashPending, i)
        /\ db_services' = IF ~ok THEN db_services
                          ELSE IF req.kind = "update"
                            THEN ServicesUpdate(db_services, req.id, req.data)
                            ELSE ServicesInsert(db_services, newId, req.data)
        /\ db_serviceSeq' = IF ok /\ req.kind = "insert" THEN newId ELSE db_serviceSeq
        /\ dash' = IF ~mounted THEN dash
                   ELSE IF IsNull(req.formError)
                     THEN [failedState EXCEPT !.editingService = Null,
                                              !.newServiceForm = BlankForm(req.categories)]
                     ELSE failedState
        /\ priceInput' = IF mounted /\ IsNull(req.formError) THEN Null ELSE priceInput
        /\ UNCHANGED <<db_profStatus, currentUser, nonDash>>

\* deleteService, up to the await: window.confirm answered yes
deleteService ==
  /\ DashReady /\ Len(dashPending) < MaxDashPending
  /\ \E i \in 1..Len(dash.services) :
       dashPending' = Append(dashPending,
         [kind |-> "delete", id |-> dash.services[i].id,
          data |-> ServiceData(currentUser, BlankForm(Categories)),
          formError |-> Null, categories |-> <<>>])
  /\ UNCHANGED <<db_services, db_serviceSeq, db_profStatus, currentUser, dash,
                 priceInput, nonDash>>

\* deleteService after the await: the gateway answers
ServiceDeleteAnswered ==
  \E i \in 1..Len(dashPending), failed \in BOOLEAN :
    LET req == dashPending[i]
        ok == ~failed /\ ~Referenced(db_contracts, req.id)
    IN  /\ req.kind = "delete"
        /\ dashPending' = RemoveAt(dashPending, i)
        /\ db_services' = IF ok THEN ServicesDelete(db_services, req.id) ELSE db_services
        /\ dash' = IF ok /\ page = "PROFESSIONAL_DASHBOARD"
                     THEN [dash EXCEPT !.services = SelectSeq(@, LAMBDA r : r.id # req.id)]
                     ELSE dash
        /\ UNCHANGED <<db_serviceSeq, db_profStatus, currentUser, priceInput, nonDash>>

RECURSIVE SplitAcc(_, _, _)
\* String.prototype.split on a one-character separator
SplitAcc(str, sep, cur) ==
  IF str = <<>> THEN <<cur>>
  ELSE IF Head(str) = sep THEN <<cur>> \o SplitAcc(Tail(str), sep, <<>>)
  ELSE SplitAcc(Tail(str), sep, Append(cur, Head(str)))

Split(str, sep) == SplitAcc(str, sep, <<>>)

RECURSIVE TrimAll(_)
TrimAll(list) == IF list = <<>> THEN <<>> ELSE <<Trim(Head(list))>> \o TrimAll(Tail(list))

\* `e.target.value.split(',').map(tag => tag.trim()).filter(tag => tag)`
TagsOfInput(str) == SelectSeq(TrimAll(Split(str, ",")), LAMBDA tag : tag # <<>>)

TagTexts == {<<>>, <<"r">>, <<"r", ",", " ", "s">>, <<" ", ",">>}
DescriptionTexts == {<<>>, <<"D">>}

\* the tags input
SetFormTags ==
  /\ DashFormShown
  /\ \E str \in TagTexts : dash' = [dash EXCEPT !.newServiceForm.tags = TagsOfInput(str)]
  /\ UNCHANGED <<db_services, db_serviceSeq, db_profStatus, currentUser, dashPending,
                 priceInput, nonDash>>

\* the description text area
SetFormDescription ==
  /\ DashFormShown
  /\ \E str \in DescriptionTexts : dash' = [dash EXCEPT !.newServiceForm.description = str]
  /\ UNCHANGED <<db_services, db_serviceSeq, db_profStatus, currentUser, dashPending,
                 priceInput, nonDash>>

\* the disabled attribute of the "generate description" button
GenerateDisabled(d) ==
  d.isGeneratingDesc \/ d.newServiceForm.title = <<>> \/ d.newServiceForm.tags = <<>>

\* handleGenerateDescription, up to the await
handleGenerateDescription ==
  /\ DashFormShown /\ ~GenerateDisabled(dash)
  /\ IF dash.newServiceForm.title = <<>> \/ dash.newServiceForm.tags = <<>>
       THEN /\ dash' = [dash EXCEPT !.formError = Some("generate-input")]
            /\ UNCHANGED dashPending
       ELSE /\ dash' = [dash EXCEPT !.isGeneratingDesc = TRUE, !.formError = Null]
            /\ dashPending' = Append(dashPending,
                 [kind |-> "generate", title |-> dash.newServiceForm.title,
                  tags |-> dash.newServiceForm.tags,
                  description |-> dash.newServiceForm.description])
  /\ UNCHANGED <<db_services, db_serviceSeq, db_profStatus, currentUser, priceInput, nonDash>>

\* handleGenerateDescription after the await: try, catch and finally
GenerateAnswered ==
  \E i \in 1..Len(dashPending), outcome \in ModelOutcomes :
    LET req == dashPending[i]
        res == generateServiceDescription(aiConfigured, req.title, req.tags,
                                          Some(req.description), outcome)
    IN  /\ req.kind = "generate"
        /\ dashPending' = RemoveAt(dashPending, i)
        /\ dash' = IF res.kind = "return"
                     THEN [dash EXCEPT !.newServiceForm.description = res.value,
                                       !.isGeneratingDesc = FALSE]
                     ELSE [dash EXCEPT !.formError = Some("generate-failed"),
                                       !.isGeneratingDesc = FALSE]
        /\ UNCHANGED <<db_services, db_serviceSeq, db_profStatus, currentUser,
                       priceInput, nonDash>>

(***************************************************************************)
(* Specification of the dashboard's description generator                  *)
(***************************************************************************)
InitDashGen ==
  /\ db_services \in {<<>>, <<ServiceRow(1, 50, "HOURLY")>>}
  /\ db_serviceSeq = Len(db_services)
  /\ db_contracts = <<>>
  /\ db_profStatus = "Available"
  /\ currentUser = DashUser(db_profStatus)
  /\ page = "PROFESSIONAL_DASHBOARD"
  /\ wz = WizardUnmounted /\ wzFetch = FetchIdle /\ wzPending = <<>>
  /\ wzRun = 0 /\ wzRows = 0
  /\ hist = HistoryUnmounted
  /\ dash = DashInitial(currentUser)
  /\ dashPending = <<>>
  /\ priceInput = Null
  /\ aiConfigured \in BOOLEAN
  /\ NtfIdle /\ PvIdle /\ GenIdle
  /\ HomeIdle /\ EditIdle /\ AuthIdle

NextDashGen ==
  \/ DashReadAnswered
  \/ OpenAddModal
  \/ openEditModal
  \/ CloseServiceModal
  \/ SetFormTitle
  \/ SetFormTags
  \/ SetFormDescription
  \/ SetFormPricingType
  \/ handleGenerateDescription
  \/ GenerateAnswered

SpecDashGen == InitDashGen /\ [][NextDashGen]_vars

\* the strings the generator can hand back for a request
ExpectedResults(req) ==
  IF ~aiConfigured
    THEN {IF req.description # <<>> THEN req.description
          ELSE FallbackDescription(req.title, req.tags)}
    ELSE {<<"o", "k">>, EmptyResponseMessage, InvalidKeyMessage, GenericErrorMessage}

\* C8: generateServiceDescription never raises and always returns a string:
\* the dashboard's catch branch never sets its form error, and when a
\* generation settles the description field holds the returned string (the
\* fallback, the trimmed text, the empty-response message or an error message).
C8_NeverRaises ==
  /\ [](dash.formError # Some("generate-failed"))
  /\ [][(dash.isGeneratingDesc /\ ~dash'.isGeneratingDesc) =>
          /\ dash'.formError = Null
          /\ \E i \in 1..Len(dashPending) :
               dash'.newServiceForm.description \in ExpectedResults(dashPending[i])]_vars

\* a model call that failed on authentication has settled: its message is
\* in the description field and no form error is shown
C8_Witness ==
  /\ aiConfigured /\ ~dash.isGeneratingDesc /\ dash.showAddServiceModal
  /\ dash.newServiceForm.description = InvalidKeyMessage
  /\ dash.formError = Null

(***************************************************************************)
(* Specification of the dashboard's service management                     *)
(***************************************************************************)
InitDash ==
  /\ db_services \in {<<>>, <<ServiceRow(1, 50, "HOURLY")>>}
  /\ db_serviceSeq = Len(db_services)
  /\ db_contracts = <<>>
  /\ db_profStatus = "Available"
  /\ currentUser = DashUser(db_profStatus)
  /\ page = "PROFESSIONAL_DASHBOARD"
  /\ wz = WizardUnmounted /\ wzFetch = FetchIdle /\ wzPending = <<>>
  /\ wzRun = 0 /\ wzRows = 0
  /\ hist = HistoryUnmounted
  /\ dash = DashInitial(currentUser)
  /\ dashPending = <<>>
  /\ priceInput = Null
  /\ aiConfigured = FALSE
  /\ NtfIdle /\ PvIdle /\ GenIdle
  /\ HomeIdle /\ EditIdle /\ AuthIdle

NextDash ==
  \/ DashReadAnswered
  \/ OpenAddModal
  \/ openEditModal
  \/ CloseServiceModal
  \/ SetFormTitle
  \/ SetFormCategory
  \/ SetFormPrice
  \/ DismissFormError
  \/ handleAddOrUpdateService
  \/ ServiceSaveAnswered
  \/ deleteService
  \/ ServiceDeleteAnswered

SpecDash == InitDash /\ [][NextDash]_vars

\* the form is submitted with its title, its category or its price missing:
\* an empty title, no category, no price in the form state, or a price
\* input that the user has emptied
MissingField ==
  \/ dash.newServiceForm.title = <<>>
  \/ IsNull(dash.newServiceForm.categoryId)
  \/ IsNull(dash.newServiceForm.price)
  \/ priceInput = Some(<<>>)

\* C5: a submit of the service form with a missing title, category or price
\* sets a form error, issues no insert or update and leaves the local
\* service list unchanged.
C5_MissingRejected ==
  [][(handleAddOrUpdateService /\ MissingField) =>
       /\ ~IsNull(dash'.formError)
       /\ dashPending' = dashPending
       /\ dash'.services = dash.services]_vars

(***************************************************************************)
(* NotificationsPage                                                       *)
(***************************************************************************)
NotificationIds == {1, 2}

\* a notifications row; the second notification carries a deep link
NotificationRow(id, isRead) ==
  [id |-> id, userId |-> "u1", isRead |-> isRead,
   linkTo |-> IF id = 2 THEN Some([page |-> "CONTRACT_FLOW", contractId |-> 1])
              ELSE Null]

\* the local patch of markAsRead with the flag flipped instead of set
MarkReadToggled(list, notificationId) ==
  [i \in 1..Len(list) |->
     IF list[i].id = notificationId THEN [list[i] EXCEPT !.isRead = ~list[i].isRead]
     ELSE list[i]]

\* the local patch of markAsRead:
\* prev.map(n => n.id === notificationId ? {...n, isRead: true} : n)
MarkReadLocal(list, notificationId) ==
  [i \in 1..Len(list) |->
     IF list[i].id = notificationId THEN [list[i] EXCEPT !.isRead = TRUE]
     ELSE list[i]]

\* a gateway that answers the update without error and stores nothing
NotificationsUpdateLost(tbl, id) == tbl

\* gateway: update({isRead: true}).eq('id', id) on `notifications`
NotificationsUpdateRead(tbl, id) ==
  [i \in 1..Len(tbl) |->
     IF tbl[i].id = id THEN [tbl[i] EXCEPT !.isRead = TRUE] ELSE tbl[i]]

\* `run` numbers the mounts of the page: a continuation of an earlier mount
\* sets the state of a component that no longer exists.  `clicked` lists the
\* cards clicked in this mount and `navigated` the calls of setCurrentPage
NtfInitial(run) ==
  [notifications |-> <<>>, loading |-> TRUE, pc |-> "fetch", run |-> run,
   marked |-> [id \in NotificationIds |-> 0],
   clicked |-> <<>>, navigated |-> <<>>]

nonNtf == <<dbVars, currentUser, wzVars, hist, dashVars, pvVars, gen,
           homeVars, editVars, authVars>>

\* fetchNotifications: the read of `notifications` answers
NtfFetchAnswered ==
  /\ page = "NOTIFICATIONS" /\ ntf.pc = "fetch"
  /\ \E failed \in BOOLEAN :
       ntf' = [ntf EXCEPT
                 !.notifications =
                    IF failed THEN @
                    ELSE Reverse(SelectSeq(db_notifications,
                                           LAMBDA r : r.userId = currentUser.id)),
                 !.loading = FALSE, !.pc = "done"]
  /\ UNCHANGED <<db_notifications, ntfPending, page, nonNtf>>

\* markAsRead issuing its update twice
IssueMarkAsReadTwice(notificationId) ==
  ntfPending' = ntfPending \o <<[id |-> notificationId, run |-> ntf.run],
                                [id |-> notificationId, run |-> ntf.run]>>

\* markAsRead, up to the await of the update
IssueMarkAsRead(notificationId) ==
  ntfPending' = Append(ntfPending, [id |-> notificationId, run |-> ntf.run])

\* the "mark as read" button, shown on an unread notification
MarkAsReadButton ==
  /\ page = "NOTIFICATIONS" /\ ~ntf.loading /\ Len(ntfPending) < MaxPending
  /\ \E i \in 1..Len(ntf.notifications) :
       /\ ~ntf.notifications[i].isRead
       /\ IssueMarkAsRead(ntf.notifications[i].id)
  /\ UNCHANGED <<db_notifications, ntf, page, nonNtf>>

\* a click that navigates only from an unread notification
ClickNavigationIfUnread(n) ==
  IF IsNull(n.linkTo) \/ n.isRead THEN <<>>
  ELSE <<[page |-> Val(n.linkTo).page,
          params |-> [contractId |-> Val(n.linkTo).contractId]]>>

\* the calls of setCurrentPage handleNotificationClick makes:
\* if (notification.linkTo) setCurrentPage(linkTo.page, linkTo.params)
ClickNavigation(n) ==
  IF IsNull(n.linkTo) THEN <<>>
  ELSE <<[page |-> Val(n.linkTo).page,
          params |-> [contractId |-> Val(n.linkTo).contractId]]>>

\* the card's onClick: notification.linkTo ? () => handleNotificationClick(n) : undefined
CardClickable(n) == ~IsNull(n.linkTo)

\* handleNotificationClick: the card of a notification with a deep link
handleNotificationClick ==
  /\ page = "NOTIFICATIONS" /\ ~ntf.loading /\ Len(ntfPending) < MaxPending
  /\ \E i \in 1..Len(ntf.notifications) :
       LET n == ntf.notifications[i]
           calls == ClickNavigation(n)
       IN  /\ CardClickable(n)
           /\ IF ~n.isRead THEN IssueMarkAsRead(n.id) ELSE UNCHANGED ntfPending
           /\ ntf' = [ntf EXCEPT !.clicked = Append(@, n.id),
                                 !.navigated = @ \o calls]
           /\ page' = IF calls = <<>> THEN page ELSE calls[Len(calls)].page
  /\ UNCHANGED <<db_notifications, nonNtf>>

\* markAsRead after the await: the gateway answers one update
MarkAsReadAnswered ==
  \E i \in 1..Len(ntfPending), failed \in BOOLEAN :
    LET id == ntfPending[i].id
    IN  /\ ntfPending' = RemoveAt(ntfPending, i)
        /\ db_notifications' = IF failed THEN db_notifications
                               ELSE NotificationsUpdateRead(db_notifications, id)
        /\ ntf' = IF failed \/ page # "NOTIFICATIONS" \/ ntfPending[i].run # ntf.run
                  THEN ntf
                  ELSE [ntf EXCEPT !.notifications = MarkReadLocal(@, id),
                                   !.marked[id] = @ + 1]
        /\ UNCHANGED <<page, nonNtf>>

\* the router shows the notifications page again
ReopenNotifications ==
  /\ page # "NOTIFICATIONS" /\ ntf.run < MaxRuns
  /\ page' = "NOTIFICATIONS"
  /\ ntf' = NtfInitial(ntf.run + 1)
  /\ UNCHANGED <<db_notifications, ntfPending, nonNtf>>

InitNotif ==
  /\ db_services = <<>> /\ db_serviceSeq = 0 /\ db_contracts = <<>>
  /\ db_profStatus = "Available"
  /\ currentUser = ClientUser
  /\ page = "NOTIFICATIONS"
  /\ wz = WizardUnmounted /\ wzFetch = FetchIdle /\ wzPending = <<>>
  /\ wzRun = 0 /\ wzRows = 0
  /\ hist = HistoryUnmounted
  /\ DashIdle /\ PvIdle /\ GenIdle
  /\ HomeIdle /\ EditIdle /\ AuthIdle
  /\ \E r1 \in BOOLEAN, r2 \in BOOLEAN :
       db_notifications = <<NotificationRow(1, r1), NotificationRow(2, r2)>>
  /\ ntf = NtfInitial(1)
  /\ ntfPending = <<>>

NextNotif ==
  \/ NtfFetchAnswered
  \/ MarkAsReadButton
  \/ handleNotificationClick
  \/ MarkAsReadAnswered
  \/ ReopenNotifications

SpecNotif == InitNotif /\ [][NextNotif]_vars

\* the local notification with a given id, as a set of its isRead values
LocalRead(list, id) == {list[i].isRead : i \in {j \in 1..Len(list) : list[j].id = id}}

\* C6: marking read is idempotent: an answered mark-read never turns a read
\* notification unread and never touches another notification, and on a
\* notification that is already read it leaves the whole local list as it is
\* (a second application gives what the first gave).
C6_MarkReadIdempotent ==
  [][\A k \in NotificationIds :
       (\E i \in 1..Len(ntfPending) :
            ntfPending[i].id = k /\ ntfPending' = RemoveAt(ntfPending, i)) =>
         /\ Len(ntf'.notifications) = Len(ntf.notifications)
         /\ \A j \in 1..Len(ntf.notifications) :
              /\ ntf.notifications[j].isRead => ntf'.notifications[j].isRead
              /\ ntf.notifications[j].id # k
                   => ntf'.notifications[j] = ntf.notifications[j]
         /\ LocalRead(ntf.notifications, k) = {TRUE}
              => ntf'.notifications = ntf.notifications
         /\ ntf'.marked[k] > ntf.marked[k] => LocalRead(ntf'.notifications, k) = {TRUE}]_vars

\* the local patch was applied twice to the same notification, which is read
C6_Witness ==
  /\ page = "NOTIFICATIONS"
  /\ \E k \in NotificationIds :
       ntf.marked[k] = 2 /\ LocalRead(ntf.notifications, k) = {TRUE}

(***************************************************************************)
(* ProfessionalProfileViewPage                                             *)
(***************************************************************************)
Ratings == 1..5

\* a reviews row
ReviewRow(id, rating) ==
  [id |-> id, clientId |-> "u1", professionalId |-> "p1", serviceId |-> 1,
   rating |-> rating]

\* the useState initial values of ProfessionalProfileViewPage; `pc` is the
\* position of fetchProfessionalDetails and servicesData its local
PvInitial(params) ==
  [params |-> params, professional |-> Null, showReviewModal |-> FALSE,
   loading |-> TRUE, error |-> Null, pc |-> "profile", servicesData |-> Null]

\* fetchProfessionalDetails without its test of params?.professionalId
PvEntryUnguarded(params) == PvInitial(params)

\* fetchProfessionalDetails up to its first await
PvEntryState(params) ==
  IF IsNull(params)
    THEN [PvInitial(params) EXCEPT !.error = Some("ID do profissional nao fornecido."),
                                   !.loading = FALSE, !.pc = "done"]
    ELSE PvInitial(params)

\* reviewsData.reduce((acc, review) => acc + review.rating, 0)
RECURSIVE TotalRating(_)
TotalRating(reviews) ==
  IF reviews = <<>> THEN 0 ELSE Head(reviews).rating + TotalRating(Tail(reviews))

\* the quotient a / b as an exact fraction
Quotient(a, b) == [num |-> a, den |-> b]

\* the profile object built at the end of fetchProfessionalDetails
CompleteProfessionalProfile(id, servicesData, reviewsData) ==
  [id |-> id,
   services |-> IF IsNull(servicesData) THEN <<>> ELSE Val(servicesData),
   reviews |-> IF IsNull(reviewsData) THEN <<>> ELSE Val(reviewsData),
   avgRating |-> IF ~IsNull(reviewsData) /\ Len(Val(reviewsData)) > 0
                   THEN Some(Quotient(TotalRating(Val(reviewsData)),
                                      Len(Val(reviewsData))))
                   ELSE Null]

\* the updater of handleReviewSubmit:
\* {...prev, reviews: [insertedReview, ...(prev.reviews || [])]}
MergeReview(prev, insertedReview) ==
  [prev EXCEPT !.reviews = <<insertedReview>> \o prev.reviews]

\* gateway: insert(newReviewData).select().single() on `reviews`
ReviewsInsert(tbl, data) == Append(tbl, [id |-> Len(tbl) + 1] @@ data)

\* the profile body is rendered
PvRendered ==
  /\ page = "PROFESSIONAL_PROFILE_VIEW"
  /\ ~pv.loading /\ IsNull(pv.error) /\ ~IsNull(pv.professional)

\* {professional.avgRating && <ReviewStars rating={professional.avgRating} />}
PvAverageDisplayed ==
  /\ PvRendered
  /\ ~IsNull(Val(pv.professional).avgRating)
  /\ Val(Val(pv.professional).avgRating).num # 0

nonPv == <<db_services, db_serviceSeq, db_contracts, db_profStatus, currentUser,
           wzVars, hist, dashVars, ntfVars, gen, homeVars, editVars, authVars>>

\* fetchProfessionalDetails: the read of `profiles` answers
PvFetchProfile ==
  /\ page = "PROFESSIONAL_PROFILE_VIEW" /\ pv.pc = "profile"
  /\ \E found \in BOOLEAN :
       pv' = IF found THEN [pv EXCEPT !.pc = "services"]
             ELSE [pv EXCEPT !.error = Some("Profissional nao encontrado."),
                             !.loading = FALSE, !.pc = "done"]
  /\ UNCHANGED <<db_reviews, pvPending, page, nonPv>>

\* fetchProfessionalDetails: the read of `services` answers
PvFetchServices ==
  /\ page = "PROFESSIONAL_PROFILE_VIEW" /\ pv.pc = "services"
  /\ \E failed \in BOOLEAN :
       pv' = [pv EXCEPT
                !.servicesData =
                   IF failed THEN Null
                   ELSE Some(SelectSeq(db_services,
                               LAMBDA r : r.professionalId = Val(pv.params))),
                !.pc = "reviews"]
  /\ UNCHANGED <<db_reviews, pvPending, page, nonPv>>

\* fetchProfessionalDetails: the read of `reviews` answers, newest first, and
\* the profile is installed
PvFetchReviews ==
  /\ page = "PROFESSIONAL_PROFILE_VIEW" /\ pv.pc = "reviews"
  /\ \E failed \in BOOLEAN :
       LET reviewsData ==
             IF failed THEN Null
             ELSE Some(Reverse(SelectSeq(db_reviews,
                         LAMBDA r : r.professionalId = Val(pv.params))))
       IN  pv' = [pv EXCEPT
                    !.professional =
                       Some(CompleteProfessionalProfile(Val(pv.params),
                                                        pv.servicesData, reviewsData)),
                    !.loading = FALSE, !.pc = "done"]
  /\ UNCHANGED <<db_reviews, pvPending, page, nonPv>>

\* the "leave a review" button, rendered for a client
PvOpenReviewModal ==
  /\ PvRendered /\ currentUser.userType = "CLIENT" /\ ~pv.showReviewModal
  /\ pv' = [pv EXCEPT !.showReviewModal = TRUE]
  /\ UNCHANGED <<db_reviews, pvPending, page, nonPv>>

\* onClose of the review modal
PvCloseReviewModal ==
  /\ PvRendered /\ pv.showReviewModal
  /\ pv' = [pv EXCEPT !.showReviewModal = FALSE]
  /\ UNCHANGED <<db_reviews, pvPending, page, nonPv>>

\* the review attached to the service listed last
NewReviewDataLastService(user, professional, rating) ==
  [clientId |-> user.id, professionalId |-> professional.id,
   serviceId |-> professional.services[Len(professional.services)].id,
   rating |-> rating]

\* newReviewData of handleReviewSubmit: serviceToReview = professional.services?.[0]
NewReviewData(user, professional, rating) ==
  [clientId |-> user.id, professionalId |-> professional.id,
   serviceId |-> professional.services[1].id,
   rating |-> rating]

\* handleReviewSubmit, up to the await of the insert; ReviewForm hands over
\* a rating that is not 0
handleReviewSubmit ==
  /\ PvRendered /\ pv.showReviewModal
  /\ Len(db_reviews) + Len(pvPending) < MaxReviews
  /\ \E rating \in Ratings :
       LET professional == Val(pv.professional)
       IN  IF professional.services = <<>>
             THEN UNCHANGED pvPending
             ELSE pvPending' =
                    Append(pvPending, NewReviewData(currentUser, professional, rating))
  /\ UNCHANGED <<db_reviews, pv, page, nonPv>>

\* handleReviewSubmit after the await: the gateway answers one insert
ReviewInsertAnswered ==
  \E i \in 1..Len(pvPending), failed \in BOOLEAN :
    LET tbl == ReviewsInsert(db_reviews, pvPending[i])
    IN  /\ pvPending' = RemoveAt(pvPending, i)
        /\ db_reviews' = IF failed THEN db_reviews ELSE tbl
        /\ pv' = IF failed \/ page # "PROFESSIONAL_PROFILE_VIEW" THEN pv
                 ELSE [pv EXCEPT
                         !.professional =
                            IF IsNull(@) THEN Null
                            ELSE Some(MergeReview(Val(@), tbl[Len(tbl)])),
                         !.showReviewModal = FALSE]
        /\ UNCHANGED <<page, nonPv>>

\* onClose of the error alert
PvDismissError ==
  /\ page = "PROFESSIONAL_PROFILE_VIEW" /\ ~pv.loading /\ ~IsNull(pv.error)
  /\ page' = "CLIENT_HOME"
  /\ UNCHANGED <<db_reviews, pv, pvPending, nonPv>>

InitProfile ==
  /\ db_services \in {<<>>, <<ServiceRow(1, 50, "HOURLY")>>,
                      <<ServiceRow(1, 50, "FIXED"), ServiceRow(2, 80, "HOURLY")>>,
                      <<[ServiceRow(1, 50, "FIXED") EXCEPT !.professionalId = "p2"]>>,
                      <<[ServiceRow(1, 50, "FIXED") EXCEPT !.professionalId = "p2"],
                        ServiceRow(2, 80, "HOURLY")>>}
  /\ db_serviceSeq = Len(db_services)
  /\ db_contracts = <<>>
  /\ db_profStatus = "Available"
  /\ currentUser \in {ClientUser, ProfessionalUser}
  /\ page = "PROFESSIONAL_PROFILE_VIEW"
  /\ wz = WizardUnmounted /\ wzFetch = FetchIdle /\ wzPending = <<>>
  /\ wzRun = 0 /\ wzRows = 0
  /\ hist = HistoryUnmounted
  /\ DashIdle /\ NtfIdle /\ GenIdle
  /\ HomeIdle /\ EditIdle /\ AuthIdle
  /\ db_reviews \in {<<>>, <<ReviewRow(1, 5)>>, <<ReviewRow(1, 4), ReviewRow(2, 2)>>}
  /\ \E params \in {Null, Some("p1")} : pv = PvEntryState(params)
  /\ pvPending = <<>>

NextProfile ==
  \/ PvFetchProfile
  \/ PvFetchServices
  \/ PvFetchReviews
  \/ PvOpenReviewModal
  \/ PvCloseReviewModal
  \/ handleReviewSubmit
  \/ ReviewInsertAnswered
  \/ PvDismissError

SpecProfile == InitProfile /\ [][NextProfile]_vars

\* C10: whenever the profile view displays an average rating, that average
\* is the sum of the ratings of the reviews in the local list divided by
\* their number.
C10_AverageIsMean ==
  PvAverageDisplayed =>
    LET professional == Val(pv.professional)
        avg == Val(professional.avgRating)
    IN  /\ professional.reviews # <<>>
        /\ avg.num * Len(professional.reviews)
             = TotalRating(professional.reviews) * avg.den

(***************************************************************************)
(* Displayed prices                                                        *)
(***************************************************************************)
DigitChar(d) ==
  CASE d = 0 -> "0" [] d = 1 -> "1" [] d = 2 -> "2" [] d = 3 -> "3" [] d = 4 -> "4"
    [] d = 5 -> "5" [] d = 6 -> "6" [] d = 7 -> "7" [] d = 8 -> "8" [] d = 9 -> "9"

RECURSIVE Digits(_)
Digits(n) == IF n < 10 THEN <<DigitChar(n)>> ELSE Digits(n \div 10) \o <<DigitChar(n % 10)>>

\* Number.prototype.toFixed(2) of a whole, non-negative amount
ToFixed2(n) == Digits(n) \o <<".", "0", "0">>

PerHour == <<" /hora">>

\* R$ {price.toFixed(2)} followed by the per-hour span of an hourly service
PriceWithMode(service) ==
  <<"R$ ">> \o ToFixed2(service.price)
    \o (IF service.pricingType = "HOURLY" THEN PerHour ELSE <<>>)

\* the price line of ServiceCard
ServiceCardPrice(service) == PriceWithMode(service)

\* the price line of a row of the dashboard service list
DashboardListPrice(service) == PriceWithMode(service)

\* the price line of the service summary of wizard step 1
WizardStep1Price(service) == PriceWithMode(service)

\* the "Valor Total" line of wizard step 3
WizardStep3Total(service) == <<"R$ ">> \o ToFixed2(service.price)

\* String.prototype.endsWith
EndsWith(str, suffix) ==
  /\ Len(str) >= Len(suffix)
  /\ SubSeq(str, Len(str) - Len(suffix) + 1, Len(str)) = suffix

\* the price lines on screen, each with the service it prices
DisplayedPrices ==
  CASE page = "CONTRACT_FLOW" ->
         IF WizardInteractive
           THEN (IF wz.step = 1 /\ IsNull(wz.existingContract)
                   THEN {[place |-> "wizard step 1", service |-> Val(wz.service),
                          text |-> WizardStep1Price(Val(wz.service))]}
                   ELSE {})
                \cup
                (IF wz.step = 3 /\ currentUser.userType = "CLIENT"
                      /\ IsNull(wz.existingContract)
                   THEN {[place |-> "wizard step 3", service |-> Val(wz.service),
                          text |-> WizardStep3Total(Val(wz.service))]}
                   ELSE {})
           ELSE {}
    [] page = "PROFESSIONAL_DASHBOARD" ->
         IF DashReady
           THEN {[place |-> "dashboard list", service |-> dash.services[i],
                  text |-> DashboardListPrice(dash.services[i])] :
                   i \in 1..Len(dash.services)}
           ELSE {}
    [] page = "PROFESSIONAL_PROFILE_VIEW" ->
         IF PvRendered
           THEN {[place |-> "service card", service |-> Val(pv.professional).services[i],
                  text |-> ServiceCardPrice(Val(pv.professional).services[i])] :
                   i \in 1..Len(Val(pv.professional).services)}
           ELSE {}
    [] OTHER -> {}

\* C9: every price line on screen ends with the per-hour suffix exactly when
\* the service it prices is HOURLY.
C9_HourlySuffix ==
  \A d \in DisplayedPrices :
    EndsWith(d.text, PerHour) <=> d.service.pricingType = "HOURLY"

(***************************************************************************)
(* The dashboard's availability status                                     *)
(***************************************************************************)
\* handleStatusChange: the status select changes; `shown` remembers the
\* status on screen when the select was changed
handleStatusChange ==
  /\ DashReady /\ Len(dashPending) < MaxDashPending
  /\ \E newStatus \in ProfessionalStatus :
       /\ newStatus # dash.status
       /\ dash' = [dash EXCEPT !.status = newStatus]
       /\ dashPending' = Append(dashPending,
            [kind |-> "status", status |-> newStatus, shown |-> dash.status])
  /\ UNCHANGED <<db_services, db_serviceSeq, db_profStatus, currentUser,
                 priceInput, nonDash>>

\* the status the failure branch of handleStatusChange puts back:
\* professional.status || 'Available'
RevertedStatus(professional) == professional.status

\* handleStatusChange after the await: the update of `profiles` answers
StatusChangeAnswered ==
  \E i \in 1..Len(dashPending), failed \in BOOLEAN :
    LET req == dashPending[i]
    IN  /\ req.kind = "status"
        /\ dashPending' = RemoveAt(dashPending, i)
        /\ db_profStatus' = IF failed THEN db_profStatus ELSE req.status
        /\ dash' = IF failed /\ page = "PROFESSIONAL_DASHBOARD"
                     THEN [dash EXCEPT !.status = RevertedStatus(currentUser)]
                     ELSE dash
        /\ UNCHANGED <<db_services, db_serviceSeq, currentUser, priceInput, nonDash>>

InitStatus ==
  /\ db_services = <<>> /\ db_serviceSeq = 0 /\ db_contracts = <<>>
  /\ db_profStatus \in ProfessionalStatus
  /\ currentUser = DashUser(db_profStatus)
  /\ page = "PROFESSIONAL_DASHBOARD"
  /\ wz = WizardUnmounted /\ wzFetch = FetchIdle /\ wzPending = <<>>
  /\ wzRun = 0 /\ wzRows = 0
  /\ hist = HistoryUnmounted
  /\ dash = DashInitial(currentUser)
  /\ dashPending = <<>>
  /\ priceInput = Null
  /\ aiConfigured = FALSE
  /\ NtfIdle /\ PvIdle /\ GenIdle
  /\ HomeIdle /\ EditIdle /\ AuthIdle

NextStatus ==
  \/ DashReadAnswered
  \/ handleStatusChange
  \/ StatusChangeAnswered

SpecStatus == InitStatus /\ [][NextStatus]_vars

\* C11: when the only status update in flight fails (the stored status is
\* left as it was, and it is not the one asked for) and the status shown
\* before that toggle is the stored one, the status on screen goes back to it.
C11_RollbackToShown ==
  [][\A i \in 1..Len(dashPending) :
       (/\ Len(dashPending) = 1
        /\ dashPending[i].kind = "status"
        /\ dashPending' = <<>>
        /\ db_profStatus' = db_profStatus
        /\ dashPending[i].status # db_profStatus
        /\ dashPending[i].shown = db_profStatus)
       => dash'.status = dashPending[i].shown]_vars

(***************************************************************************)
(* ClientHomePage                                                          *)
(***************************************************************************)
\* the professionals the gateway holds, each with its nested services
HomeProfessionals ==
  << [id |-> "p1", name |-> <<"a", "n", "a">>, specializations |-> <<>>,
      services |-> <<[id |-> 1, categoryId |-> "cat1"]>>],
     [id |-> "p2", name |-> <<"b", "o", "b">>, specializations |-> << <<"a">> >>,
      services |-> <<[id |-> 2, categoryId |-> "cat2"]>>],
     [id |-> "p3", name |-> <<"b", "i", "a">>, specializations |-> <<>>,
      services |-> <<>>] >>

SearchTerms == {<<>>, <<"a">>, <<"b", "o">>}

\* the useState initial values of ClientHomePage
HomeInitial ==
  [searchTerm |-> <<>>, selectedCategory |-> Null, professionals |-> <<>>,
   categories |-> <<>>, loadingProfs |-> TRUE, loadingCats |-> TRUE,
   error |-> Null, catsPending |-> TRUE]

\* name.ilike.%term% or specializations.cs.{term}
MatchesSearch(prof, term) ==
  \/ Includes(prof.name, term)
  \/ \E i \in 1..Len(prof.specializations) : prof.specializations[i] = term

\* the profiles query of fetchProfessionals
ProfilesQuery(tbl, searchTerm) ==
  IF searchTerm = <<>> THEN tbl
  ELSE SelectSeq(tbl, LAMBDA prof : MatchesSearch(prof, searchTerm))

\* filteredData.filter(prof => prof.services?.some(s => s.categoryId === selectedCategory.id))
CategoryFilter(data, selectedCategory) ==
  IF IsNull(selectedCategory) THEN data
  ELSE SelectSeq(data, LAMBDA prof :
         \E i \in 1..Len(prof.services) :
            prof.services[i].categoryId = Val(selectedCategory))

\* the full-page spinner: if (loadingCats && loadingProfs)
HomeSpinnerShown(h) == h.loadingCats /\ h.loadingProfs

\* the body of the home view is rendered
HomeRendered == page = "CLIENT_HOME" /\ ~HomeSpinnerShown(home)

\* the effect on [searchTerm, selectedCategory]: fetchProfessionals up to
\* the await of the query
IssueProfilesRead(h) ==
  /\ Len(homePending) < MaxPending
  /\ home' = [h EXCEPT !.loadingProfs = TRUE, !.error = Null]
  /\ homePending' = Append(homePending,
       [searchTerm |-> h.searchTerm, selectedCategory |-> h.selectedCategory])

nonHome == <<dbVars, currentUser, wzVars, hist, dashVars, ntfVars, pvVars, gen,
             editVars, authVars>>

\* fetchCategories: the read of `categories` answers
HomeCategoriesAnswered ==
  /\ page = "CLIENT_HOME" /\ home.catsPending
  /\ \E failed \in BOOLEAN :
       home' = [home EXCEPT
                  !.error = IF failed THEN Some("categorias") ELSE @,
                  !.categories = IF failed THEN @ ELSE Categories,
                  !.loadingCats = FALSE, !.catsPending = FALSE]
  /\ UNCHANGED <<homePending, page, nonHome>>

\* fetchProfessionals after the await: one read of `profiles` answers
HomeProfilesAnswered ==
  /\ page = "CLIENT_HOME"
  /\ \E i \in 1..Len(homePending), failed \in BOOLEAN :
       LET req == homePending[i]
           data == ProfilesQuery(HomeProfessionals, req.searchTerm)
       IN  /\ homePending' = RemoveAt(homePending, i)
           /\ home' = IF failed
                        THEN [home EXCEPT !.error = Some("profissionais"),
                                          !.professionals = <<>>,
                                          !.loadingProfs = FALSE]
                        ELSE [home EXCEPT
                                !.professionals = CategoryFilter(data, req.selectedCategory),
                                !.loadingProfs = FALSE]
  /\ UNCHANGED <<page, nonHome>>

\* SearchBar submit: onSearch(term); a new term runs the effect again
HomeSearch ==
  /\ HomeRendered
  /\ \E term \in SearchTerms :
       /\ term # home.searchTerm
       /\ IssueProfilesRead([home EXCEPT !.searchTerm = term])
  /\ UNCHANGED <<page, nonHome>>

\* a category pill: setSelectedCategory(prev => prev?.id === cat.id ? null : cat)
HomeToggleCategory ==
  /\ HomeRendered /\ ~home.loadingCats
  /\ \E i \in 1..Len(home.categories) :
       LET cat == home.categories[i]
       IN  IssueProfilesRead([home EXCEPT !.selectedCategory =
                                IF @ = Some(cat) THEN Null ELSE Some(cat)])
  /\ UNCHANGED <<page, nonHome>>

\* the "clear" button next to the pills
HomeClearCategory ==
  /\ HomeRendered /\ ~home.loadingCats /\ ~IsNull(home.selectedCategory)
  /\ IssueProfilesRead([home EXCEPT !.selectedCategory = Null])
  /\ UNCHANGED <<page, nonHome>>

\* onClose of the error alert
HomeDismissError ==
  /\ HomeRendered /\ ~IsNull(home.error)
  /\ home' = [home EXCEPT !.error = Null]
  /\ UNCHANGED <<homePending, page, nonHome>>

InitHome ==
  /\ db_services = <<>> /\ db_serviceSeq = 0 /\ db_contracts = <<>>
  /\ db_profStatus = "Available"
  /\ currentUser = ClientUser
  /\ page = "CLIENT_HOME"
  /\ wz = WizardUnmounted /\ wzFetch = FetchIdle /\ wzPending = <<>>
  /\ wzRun = 0 /\ wzRows = 0
  /\ hist = HistoryUnmounted
  /\ DashIdle /\ NtfIdle /\ PvIdle /\ GenIdle /\ EditIdle /\ AuthIdle
  /\ home = HomeInitial
  /\ homePending = <<[searchTerm |-> <<>>, selectedCategory |-> Null]>>

NextHome ==
  \/ HomeCategoriesAnswered
  \/ HomeProfilesAnswered
  \/ HomeSearch
  \/ HomeToggleCategory
  \/ HomeClearCategory
  \/ HomeDismissError

SpecHome == InitHome /\ [][NextHome]_vars

\* C12: a new search term issues a fresh read of professionals, while
\* selecting, changing or clearing a category issues no read.
C12_CategoryIssuesNoRead ==
  [][/\ home'.searchTerm # home.searchTerm
          => /\ Len(homePending') = Len(homePending) + 1
             /\ homePending'[Len(homePending')].searchTerm = home'.searchTerm
     /\ home'.selectedCategory # home.selectedCategory
          => homePending' = homePending]_vars

(***************************************************************************)
(* ProfileEditPage                                                         *)
(***************************************************************************)
\* a profile object is a function from its field names to their values

\* the signed-in user before the first profile completion: no profiles.id
NewUser ==
  [f \in {"id", "user_id", "email", "userType", "name"} |->
     CASE f = "id" -> "" [] f = "user_id" -> "auth1" [] f = "email" -> "a@x"
       [] f = "userType" -> "CLIENT" [] OTHER -> ""]

\* a signed-in user whose profile row exists
ExistingUser(userType) ==
  [f \in {"id", "user_id", "email", "userType", "name", "created_at", "updated_at"} |->
     CASE f = "id" -> "u1" [] f = "user_id" -> "auth1" [] f = "email" -> "a@x"
       [] f = "userType" -> userType [] f = "name" -> "Ana" [] OTHER -> "t0"]

\* {...prev, [name]: value}
SetField(obj, name, value) ==
  [f \in DOMAIN obj \cup {name} |-> IF f = name THEN value ELSE obj[f]]

\* {...a, ...b}
Spread(a, b) ==
  [f \in DOMAIN a \cup DOMAIN b |-> IF f \in DOMAIN b THEN b[f] ELSE a[f]]

\* the fields handleSubmit takes out of the profile before saving
StrippedFields == {"userType", "created_at", "updated_at", "email", "user_id", "id"}

\* the rest object with userType left in
ProfileDataWithRole(profile) ==
  [f \in DOMAIN profile \ (StrippedFields \ {"userType"}) |-> profile[f]]

\* const { userType, created_at, updated_at, email, user_id, id,
\*         ...profileDataToSave } = profile
ProfileDataToSave(profile) ==
  [f \in DOMAIN profile \ StrippedFields |-> profile[f]]

\* handleSubmit without the isExistingProfile test: an update whatever the
\* current user's id
AlwaysUpdate(user, profile) ==
  [op |-> "update", id |-> user["id"], payload |-> ProfileDataToSave(profile)]

\* the operation handleSubmit builds: isExistingProfile = !!currentUser.id
ProfileOperation(user, profile) ==
  IF user["id"] # ""
    THEN [op |-> "update", id |-> user["id"], payload |-> ProfileDataToSave(profile)]
    ELSE [op |-> "insert", id |-> "",
          payload |-> Spread(ProfileDataToSave(profile),
                             [f \in {"user_id", "userType", "email"} |->
                                CASE f = "user_id" -> user["user_id"]
                                  [] f = "userType" -> profile["userType"]
                                  [] OTHER -> user["email"]])]

\* gateway: update(payload).eq('id', id) on `profiles`
ProfilesUpdate(tbl, id, payload) ==
  [i \in 1..Len(tbl) |-> IF tbl[i]["id"] = id THEN Spread(tbl[i], payload) ELSE tbl[i]]

\* the ids the gateway generates for `profiles`
ProfileIds == <<"u1", "u2", "u3">>

\* gateway: insert(payload) on `profiles`; the id is generated
ProfilesInsert(tbl, payload) ==
  Append(tbl, SetField(payload, "id", ProfileIds[Len(tbl) + 1]))

\* the useState initial values of ProfileEditPage
EditInitial(user) ==
  [profile |-> user, isSaving |-> FALSE, alertInfo |-> Null, timer |-> FALSE]

\* the form is rendered: the spinner guard on user_id does not hold
EditFormShown ==
  /\ page = "PROFILE_EDIT"
  /\ ~(edit.profile["user_id"] = "" /\ currentUser["user_id"] = "")

nonEdit == <<dbVars, currentUser, page, wzVars, hist, dashVars, ntfVars, pvVars, gen,
             homeVars, authVars>>

\* handleChange of the name input
EditSetName ==
  /\ EditFormShown
  /\ \E v \in {"", "Bia"} : edit' = [edit EXCEPT !.profile = SetField(@, "name", v)]
  /\ UNCHANGED <<db_profiles, editPending, nonEdit>>

\* handleChange of the role select, rendered only while there is no profile id
EditSetUserType ==
  /\ EditFormShown /\ currentUser["id"] = ""
  /\ \E v \in UserType : edit' = [edit EXCEPT !.profile = SetField(@, "userType", v)]
  /\ UNCHANGED <<db_profiles, editPending, nonEdit>>

\* handleChange of the status select, rendered for a professional
EditSetStatus ==
  /\ EditFormShown /\ edit.profile["userType"] = "PROFESSIONAL"
  /\ \E v \in {"Available", "Busy"} :
       edit' = [edit EXCEPT !.profile = SetField(@, "status", v)]
  /\ UNCHANGED <<db_profiles, editPending, nonEdit>>

\* handleSpecializationsChange: e.target.value.split(',').map(s => s.trim())
handleSpecializationsChange ==
  /\ EditFormShown /\ edit.profile["userType"] = "PROFESSIONAL"
  /\ \E str \in {<<>>, <<"r", ",", " ", "s">>} :
       edit' = [edit EXCEPT !.profile =
                  SetField(@, "specializations", TrimAll(Split(str, ",")))]
  /\ UNCHANGED <<db_profiles, editPending, nonEdit>>

\* handleSubmit, up to the await; the submit button is disabled while saving
handleSubmit ==
  /\ EditFormShown /\ ~edit.isSaving
  /\ Len(editPending) < MaxPending
  /\ LET operation == ProfileOperation(currentUser, edit.profile)
     IN  /\ operation.op = "insert" => Len(db_profiles) < MaxProfiles
         /\ editPending' = Append(editPending, operation)
  /\ edit' = [edit EXCEPT !.isSaving = TRUE, !.alertInfo = Null]
  /\ UNCHANGED <<db_profiles, nonEdit>>

\* handleSubmit after the await: the gateway answers
ProfileSaveAnswered ==
  \E i \in 1..Len(editPending), failed \in BOOLEAN :
    LET req == editPending[i]
    IN  /\ editPending' = RemoveAt(editPending, i)
        /\ db_profiles' = IF failed THEN db_profiles
                          ELSE IF req.op = "update"
                            THEN ProfilesUpdate(db_profiles, req.id, req.payload)
                            ELSE ProfilesInsert(db_profiles, req.payload)
        /\ edit' = IF page # "PROFILE_EDIT" THEN edit
                   ELSE [edit EXCEPT !.isSaving = FALSE,
                                     !.alertInfo = Some(IF failed THEN "error" ELSE "success"),
                                     !.timer = TRUE]
        /\ UNCHANGED nonEdit

\* setTimeout(() => setAlertInfo(null), 3000) of some earlier submit fires
EditAlertTimeout ==
  /\ page = "PROFILE_EDIT" /\ edit.timer
  /\ \E more \in BOOLEAN : edit' = [edit EXCEPT !.alertInfo = Null, !.timer = more]
  /\ UNCHANGED <<db_profiles, editPending, nonEdit>>

\* onClose of the alert
EditDismissAlert ==
  /\ EditFormShown /\ ~IsNull(edit.alertInfo)
  /\ edit' = [edit EXCEPT !.alertInfo = Null]
  /\ UNCHANGED <<db_profiles, editPending, nonEdit>>

InitEdit ==
  /\ db_services = <<>> /\ db_serviceSeq = 0 /\ db_contracts = <<>>
  /\ db_profStatus = "Available"
  /\ currentUser \in {NewUser} \cup {ExistingUser(t) : t \in UserType}
  /\ page = "PROFILE_EDIT"
  /\ wz = WizardUnmounted /\ wzFetch = FetchIdle /\ wzPending = <<>>
  /\ wzRun = 0 /\ wzRows = 0
  /\ hist = HistoryUnmounted
  /\ DashIdle /\ NtfIdle /\ PvIdle /\ GenIdle /\ HomeIdle /\ AuthIdle
  /\ db_profiles = IF currentUser["id"] = "" THEN <<>> ELSE <<currentUser>>
  /\ edit = EditInitial(currentUser)
  /\ editPending = <<>>

NextEdit ==
  \/ EditSetName
  \/ EditSetUserType
  \/ EditSetStatus
  \/ handleSpecializationsChange
  \/ handleSubmit
  \/ ProfileSaveAnswered
  \/ EditAlertTimeout
  \/ EditDismissAlert

SpecEdit == InitEdit /\ [][NextEdit]_vars

\* a submit: the save flag goes up
SubmitStep == ~edit.isSaving /\ edit'.isSaving

\* C15: a submit issues exactly one operation: an insert exactly when the
\* current user has no profile id, carrying the user's user_id and email and
\* the role chosen in the form, and otherwise an update filtered by that id;
\* no other step issues one.
C15_InsertOrUpdate ==
  [][/\ Len(editPending') <= Len(editPending) + 1
     /\ Len(editPending') = Len(editPending) + 1 <=> SubmitStep
     /\ SubmitStep =>
          LET req == editPending'[Len(editPending')]
          IN  /\ SubSeq(editPending', 1, Len(editPending)) = editPending
              /\ req.op = "insert" <=> currentUser["id"] = ""
              /\ req.op = "update" <=> currentUser["id"] # ""
              /\ req.op = "update" => req.id = currentUser["id"]
              /\ req.op = "insert" =>
                   /\ {"user_id", "email", "userType"} \subseteq DOMAIN req.payload
                   /\ req.payload["user_id"] = currentUser["user_id"]
                   /\ req.payload["user_id"] # ""
                   /\ req.payload["email"] = currentUser["email"]
                   /\ req.payload["userType"] = edit.profile["userType"]]_vars

\* a first profile was inserted as a professional, the role chosen in the form
C15_Witness ==
  /\ currentUser["id"] = "" /\ Len(db_profiles) = 1
  /\ db_profiles[1]["userType"] = "PROFESSIONAL"
  /\ db_profiles[1]["user_id"] = "auth1"

\* C16: on an existing profile no update carries userType, id, user_id or
\* email, and the stored role of a profile row never changes.
C16_RoleNotEditable ==
  /\ [](\A i \in 1..Len(editPending) :
          editPending[i].op = "update" =>
            DOMAIN editPending[i].payload
              \cap {"userType", "id", "user_id", "email"} = {})
  /\ [][\A i \in 1..Len(db_profiles) :
          db_profiles'[i]["userType"] = db_profiles[i]["userType"]]_vars

\* an edited name of an existing profile was stored, the role as before
C16_Witness ==
  /\ currentUser["id"] = "u1" /\ Len(db_profiles) = 1
  /\ db_profiles[1]["name"] = "Bia"
  /\ db_profiles[1]["userType"] = currentUser["userType"]

(***************************************************************************)
(* OnboardingPage                                                          *)
(***************************************************************************)
\* the useState initial values of OnboardingPage
AuthInitial ==
  [email |-> "", password |-> "", loading |-> FALSE, error |-> Null, isSignUp |-> FALSE]

nonAuth == <<dbVars, currentUser, page, wzVars, hist, dashVars, ntfVars, pvVars, gen,
             homeVars, editVars>>

\* the email and password inputs
AuthSetCredentials ==
  /\ page = "ONBOARDING"
  /\ \E e \in {"", "a@x"}, p \in {"", "pw"} :
       /\ <<e, p>> # <<auth.email, auth.password>>
       /\ auth' = [auth EXCEPT !.email = e, !.password = p]
  /\ UNCHANGED <<authPending, nonAuth>>

\* the link under the form: setIsSignUp(!isSignUp); setError(null)
AuthToggleMode ==
  /\ page = "ONBOARDING"
  /\ auth' = [auth EXCEPT !.isSignUp = ~@, !.error = Null]
  /\ UNCHANGED <<authPending, nonAuth>>

\* handleAuth, up to the await of signUp or signInWithPassword; both inputs
\* are required and the submit button is disabled while loading
handleAuth ==
  /\ page = "ONBOARDING" /\ ~auth.loading
  /\ auth.email # "" /\ auth.password # ""
  /\ Len(authPending) < MaxPending
  /\ auth' = [auth EXCEPT !.loading = TRUE, !.error = Null]
  /\ authPending' = Append(authPending,
       [kind |-> IF auth.isSignUp THEN "signUp" ELSE "signInWithPassword",
        email |-> auth.email, password |-> auth.password])
  /\ UNCHANGED nonAuth

\* handleAuth after the await: try, catch and finally
AuthAnswered ==
  /\ \E i \in 1..Len(authPending), failed \in BOOLEAN :
       /\ authPending' = RemoveAt(authPending, i)
       /\ auth' = IF page # "ONBOARDING" THEN auth
                  ELSE [auth EXCEPT !.error = IF failed THEN Some("auth") ELSE @,
                                    !.loading = FALSE]
  /\ UNCHANGED nonAuth

\* onClose of the error alert
AuthDismissError ==
  /\ page = "ONBOARDING" /\ ~IsNull(auth.error)
  /\ auth' = [auth EXCEPT !.error = Null]
  /\ UNCHANGED <<authPending, nonAuth>>

InitAuth ==
  /\ db_services = <<>> /\ db_serviceSeq = 0 /\ db_contracts = <<>>
  /\ db_profStatus = "Available"
  /\ currentUser = ClientUser
  /\ page = "ONBOARDING"
  /\ wz = WizardUnmounted /\ wzFetch = FetchIdle /\ wzPending = <<>>
  /\ wzRun = 0 /\ wzRows = 0
  /\ hist = HistoryUnmounted
  /\ DashIdle /\ NtfIdle /\ PvIdle /\ GenIdle /\ HomeIdle /\ EditIdle
  /\ auth = AuthInitial
  /\ authPending = <<>>

NextAuth ==
  \/ AuthSetCredentials
  \/ AuthToggleMode
  \/ handleAuth
  \/ AuthAnswered
  \/ AuthDismissError

(***************************************************************************)
(* Every view that issues remote mutations, one of them mounted            *)
(***************************************************************************)
\* which view the behaviour runs in: the others stay unmounted
InDash == DOMAIN dash # {}
InNotif == DOMAIN ntf # {}
InProfile == DOMAIN pv # {}
InEdit == DOMAIN edit # {}
InAuth == DOMAIN auth # {}
InContract == ~(InDash \/ InNotif \/ InProfile \/ InEdit \/ InAuth)

\* the dashboard's service and status mutations
NextDashCalls ==
  \/ DashReadAnswered
  \/ OpenAddModal
  \/ openEditModal
  \/ SetFormTitle
  \/ handleAddOrUpdateService
  \/ ServiceSaveAnswered
  \/ deleteService
  \/ ServiceDeleteAnswered
  \/ handleStatusChange
  \/ StatusChangeAnswered

InitCalls ==
  InitContract \/ InitDash \/ InitNotif \/ InitProfile \/ InitEdit \/ InitAuth

\* The wizard's steps that lead to, issue or answer its one mutation
\* (views.tsx:842-954); the owner's edits and the history page issue none.
NextContractCalls ==
  \/ WzFetchContract
  \/ WzFetchService
  \/ WzFetchProfessional
  \/ WzSetPaymentMethod
  \/ handleNextStep
  \/ handlePreviousStep
  \/ WzInsertAnswered
  \/ WzDismissError

NextCalls ==
  \/ InContract /\ NextContractCalls
  \/ InDash /\ NextDashCalls
  \/ InNotif /\ NextNotif
  \/ InProfile /\ NextProfile
  \/ InEdit /\ NextEdit
  \/ InAuth /\ NextAuth

SpecCalls == InitCalls /\ [][NextCalls]_vars

\* remote mutation calls issued and not yet answered, over all views
InFlight ==
  Len(wzPending) + Len(dashPending) + Len(ntfPending) + Len(pvPending)
    + Len(editPending) + Len(authPending)

\* a call of some view is answered in this step
SomeAnswered ==
  \/ Len(wzPending') < Len(wzPending)
  \/ Len(dashPending') < Len(dashPending)
  \/ Len(ntfPending') < Len(ntfPending)
  \/ Len(pvPending') < Len(pvPending)
  \/ Len(editPending') < Len(editPending)
  \/ Len(authPending') < Len(authPending)

\* a call of some view is issued in this step
SomeIssued ==
  \/ Len(wzPending') > Len(wzPending)
  \/ Len(dashPending') > Len(dashPending)
  \/ Len(ntfPending') > Len(ntfPending)
  \/ Len(pvPending') > Len(pvPending)
  \/ Len(editPending') > Len(editPending)
  \/ Len(authPending') > Len(authPending)

\* the positions of the views' reads
ReadPositions ==
  <<wzFetch,
    IF InDash THEN dash.fetch ELSE <<>>,
    IF InNotif THEN <<ntf.pc>> ELSE <<>>,
    IF InProfile THEN <<pv.pc>> ELSE <<>>>>

RowAdded == Len(db_contracts') = Len(db_contracts) + 1
NewRow == db_contracts'[Len(db_contracts')]

\* the payload carries status REQUESTED and one message from the current user
SeededPayload(data) ==
  /\ data.status = "REQUESTED"
  /\ Len(data.chatMessages) = 1
  /\ data.chatMessages[1].senderId = currentUser.id
  /\ data.clientId = currentUser.id

\* C1: the row inserted for a new contract has status REQUESTED and exactly
\* one chat message, sent by the current user, whose text is the step-1 text:
\* every insert in flight from the mounted wizard carries the text the
\* wizard holds, and every row added to `contracts` is such a payload.
C1_SeededRequest ==
  /\ [](\A i \in 1..Len(wzPending) :
          /\ SeededPayload(wzPending[i].data)
          /\ (page = "CONTRACT_FLOW" /\ wzPending[i].run = wzRun)
               => wzPending[i].data.chatMessages[1].text = wz.contractDetails)
  /\ [][RowAdded =>
          /\ SeededPayload(NewRow)
          /\ \E i \in 1..Len(wzPending) :
               NewRow = [id |-> Len(db_contracts')] @@ wzPending[i].data]_vars

\* a new contract was created from a wizard in which a step-1 text was typed
C1_Witness ==
  /\ page = "CONTRACT_FLOW" /\ wz.isContractConfirmed /\ IsNull(wz.existingContract)
  /\ wzRows = 1 /\ wz.contractDetails = "de manha"
  /\ db_contracts[Len(db_contracts)].chatMessages[1].text = "de manha"
  /\ Len(db_contracts) = 1

\* C2: a wizard for a new contract that is in the confirmed state has
\* inserted exactly one row into `contracts`.
C2_OneRowPerWizard ==
  (wz.isContractConfirmed /\ IsNull(wz.existingContract)) => wzRows = 1

\* a step in which handleNextStep issues an insert into `contracts`
InsertIssued == Len(wzPending') = Len(wzPending) + 1
IssuedData == wzPending'[Len(wzPending')].data

\* C3: the priceAgreed written in an insert is the price the referenced
\* service has in `services` at the instant the insert is issued.
C3_PriceAtInsert ==
  [][InsertIssued =>
       /\ ~IsNull(Single(db_services, IssuedData.serviceId))
       /\ IssuedData.priceAgreed
            = Val(Single(db_services, IssuedData.serviceId)).price]_vars

\* C4: no step changes the priceAgreed (or the identity) of a row that
\* `contracts` already holds; rows are only ever added.
C4_PriceAgreedFrozen ==
  [][\A i \in 1..Len(db_contracts) :
       /\ i <= Len(db_contracts')
       /\ db_contracts'[i].id = db_contracts[i].id
       /\ db_contracts'[i].priceAgreed = db_contracts[i].priceAgreed]_vars

\* an existing contract, reopened in the wizard and confirmed, whose service
\* has since been given another price
C4_Witness ==
  /\ page = "CONTRACT_FLOW" /\ wz.isContractConfirmed
  /\ ~IsNull(wz.existingContract)
  /\ \E i \in 1..Len(db_contracts) :
       /\ db_contracts[i].id = Val(wz.existingContract).id
       /\ ~IsNull(Single(db_services, db_contracts[i].serviceId))
       /\ Val(Single(db_services, db_contracts[i].serviceId)).price
            # db_contracts[i].priceAgreed
       /\ Val(wz.service).price # db_contracts[i].priceAgreed

\* C14: the client home shows its loading indicator, and none of its
\* content, while the categories read or the first professionals read is
\* pending.
C14_HomeLoadingUntilSettled ==
  (page = "CLIENT_HOME" /\ (home.catsPending \/ homePending # <<>>))
    => HomeSpinnerShown(home)

\* C13: a profile view whose services read failed ends with its error set
\* and shows none of the data read.
C13_FailedReadShowsError ==
  (page = "PROFESSIONAL_PROFILE_VIEW" /\ pv.pc = "done"
     /\ ~IsNull(pv.professional) /\ IsNull(pv.servicesData))
    => (~IsNull(pv.error) /\ ~PvRendered)

\* the services the gateway holds for a professional
OwnedServiceIds(professionalId) ==
  {db_services[i].id : i \in {j \in 1..Len(db_services) :
                                  db_services[j].professionalId = professionalId}}

\* C17: every review issued from the profile view names the professional
\* being viewed and the first service of the fetched list, a service of that
\* professional; with no services fetched a submit issues nothing.
C17_ReviewOfFirstService ==
  /\ [](\A i \in 1..Len(pvPending) :
          /\ pvPending[i].professionalId = Val(pv.params)
          /\ Val(pv.professional).services # <<>>
          /\ pvPending[i].serviceId = Val(pv.professional).services[1].id
          /\ pvPending[i].serviceId \in OwnedServiceIds(pvPending[i].professionalId))
  /\ [][(PvRendered /\ Val(pv.professional).services = <<>>)
          => (pvPending' = pvPending /\ db_reviews' = db_reviews)]_vars
  /\ [][\A i \in 1..Len(db_reviews') :
          i > Len(db_reviews) =>
            /\ db_reviews'[i].professionalId = Val(pv.params)
            /\ db_reviews'[i].serviceId = Val(pv.professional).services[1].id]_vars

\* a review of p1 was stored from a view whose first fetched service is
\* service 2, the table's first row belonging to another professional
C17_Witness ==
  /\ PvRendered /\ Len(db_services) = 2
  /\ \E i \in 1..Len(db_reviews) :
       db_reviews[i].serviceId = 2 /\ db_reviews[i].professionalId = "p1"
  /\ Val(pv.professional).services[1].id = 2

(***************************************************************************)
(* The wizard's step pointer                                               *)
(***************************************************************************)
\* C19: the step of the contract wizard is always one of 1, 2, 3, whatever
\* sequence of Next and Back presses led to it.
C19_StepInRange == wz.step \in {1, 2, 3}

\* C20: a press of Back on step k > 1 moves to step k - 1 and a press on
\* step 1 leaves the step where it is; the press issues no remote call and
\* changes neither the entered details nor the payment method.
C20_BackMovesDown ==
  [][handlePreviousStep =>
       /\ wz'.step = (IF wz.step > 1 THEN wz.step - 1 ELSE wz.step)
       /\ wzPending' = wzPending /\ wzFetch' = wzFetch
       /\ wz'.contractDetails = wz.contractDetails
       /\ wz'.paymentMethod = wz.paymentMethod]_vars

(***************************************************************************)
(* Reopening a stored contract                                             *)
(***************************************************************************)
\* chat histories a stored contract may carry
ChatHistories ==
  {<<>>, <<[senderId |-> "u1", text |-> "de manha"]>>,
   <<[senderId |-> "u1", text |-> ""], [senderId |-> "p1", text |-> "ok"]>>,
   <<[senderId |-> "u1", text |-> "de manha"], [senderId |-> "p1", text |-> "ok"]>>}

\* a row of `contracts` with any status and chat history
StoredContract(price, status, chat) ==
  [EarlierContract(price) EXCEPT !.status = status, !.chatMessages = chat]

InitResume ==
  /\ \E p \in Prices, t \in ServicePricingType :
       db_services = <<ServiceRow(1, p, t)>>
  /\ \E p \in Prices, st \in ContractStatus, chat \in ChatHistories :
       db_contracts = <<StoredContract(p, st, chat)>>
  /\ db_serviceSeq = 1
  /\ db_profStatus = "Available"
  /\ currentUser \in {ClientUser, ProfessionalUser}
  /\ page = "CONTRACT_FLOW"
  /\ \E cid \in 1..2 :
       /\ wz = FetchEntryState(ExistingParams(cid))
       /\ wzFetch = [pc |-> FetchEntryPc(ExistingParams(cid)), serviceData |-> Null]
  /\ wzPending = <<>>
  /\ wzRun = 1
  /\ wzRows = 0
  /\ hist = HistoryUnmounted
  /\ DashIdle /\ NtfIdle /\ PvIdle /\ GenIdle
  /\ HomeIdle /\ EditIdle /\ AuthIdle

NextResume ==
  \/ WzFetchContract
  \/ handleNextStep
  \/ WzGoHistory
  \/ WzDismissError
  \/ HistFetchContracts
  \/ HistOpenContract

SpecResume == InitResume /\ [][NextResume]_vars

\* C21: when the read of an existing contract finds it, the wizard shows
\* step 2 with the details set to the text of the contract's first chat
\* message (empty when there is none), whatever the contract's status; with
\* an existing contract the step-1 panel is never rendered.
C21_ResumesAtStep2 ==
  /\ [][(wzFetch.pc = "contract" /\ wzFetch'.pc = "done"
           /\ page' = "CONTRACT_FLOW" /\ ~wz'.error) =>
          LET c == Single(db_contracts, wz.params.contractId)
          IN  /\ ~IsNull(c)
              /\ wz'.existingContract = c
              /\ wz'.step = 2
              /\ ~wz'.loading
              /\ wz'.contractDetails =
                   (IF Val(c).chatMessages = <<>> THEN ""
                    ELSE Head(Val(c).chatMessages).text)]_vars
  /\ [](~IsNull(wz.existingContract) => (~Step1Shown(wz) /\ wz.step \in {2, 3}))

\* a completed contract with two messages was reopened and is shown on step 2
C21_Witness ==
  /\ WizardInteractive /\ wz.step = 2
  /\ ~IsNull(wz.existingContract)
  /\ Val(wz.existingContract).status = "COMPLETED"
  /\ Len(Val(wz.existingContract).chatMessages) = 2
  /\ wz.contractDetails = "de manha"

(***************************************************************************)
(* The wizard for a professional and for an existing contract              *)
(***************************************************************************)
\* C22: for a professional user the wizard issues no insert, `contracts`
\* never changes and the confirmed state is never reached; while the wizard
\* shows an existing contract no press issues an insert, no row of
\* `contracts` is updated, and a row is added only by the answer to an
\* insert issued from an earlier mount of the wizard.
C22_NoMutation ==
  /\ [](currentUser.userType = "PROFESSIONAL" =>
          (wzPending = <<>> /\ ~wz.isContractConfirmed))
  /\ [][currentUser.userType = "PROFESSIONAL" => db_contracts' = db_contracts]_vars
  /\ [][~IsNull(wz.existingContract) =>
          /\ Len(wzPending') <= Len(wzPending)
          /\ SubSeq(db_contracts', 1, Len(db_contracts)) = db_contracts
          /\ db_contracts' # db_contracts =>
               \E i \in 1..Len(wzPending) :
                 /\ wzPending[i].run # wzRun
                 /\ wzPending' = RemoveAt(wzPending, i)
                 /\ db_contracts' = ContractsInsert(db_contracts, wzPending[i].data)]_vars

\* the client closed the details of an existing contract: the confirmed
\* screen is shown and `contracts` holds that one row, as it was read
C22_Witness ==
  /\ page = "CONTRACT_FLOW" /\ currentUser.userType = "CLIENT"
  /\ wz.isContractConfirmed /\ ~IsNull(wz.existingContract)
  /\ db_contracts = <<Val(wz.existingContract)>>
  /\ wzPending = <<>>

(***************************************************************************)
(* The insert of a new contract                                            *)
(***************************************************************************)
\* an insert is issued only by a client on step 3 of a new contract with a
\* payment method chosen and both service and professional loaded
InsertOnlyFromStep3 ==
  [][Len(wzPending') > Len(wzPending) =>
       /\ wz.step = 3 /\ ~IsNull(wz.paymentMethod)
       /\ ~IsNull(wz.service) /\ ~IsNull(wz.professional)
       /\ IsNull(wz.existingContract) /\ currentUser.userType = "CLIENT"]_vars

\* a mount of a new contract starts on step 1 and every change of the step
\* adds one: step 3 is only reached through step 1 and then step 2
StepsInOrder ==
  [][/\ wzRun' # wzRun /\ wz'.params.kind = "new" => wz'.step = 1
     /\ (wzRun' = wzRun /\ page' = "CONTRACT_FLOW" /\ IsNull(wz'.existingContract)
           /\ wz'.step # wz.step) => wz'.step = wz.step + 1]_vars

\* a new-contract wizard becomes confirmed only in the step that stores its row
ConfirmedOnlyAfterInsert ==
  [][(~wz.isContractConfirmed /\ wz'.isContractConfirmed /\ IsNull(wz.existingContract)) =>
       /\ Len(db_contracts') = Len(db_contracts) + 1
       /\ \E i \in 1..Len(wzPending) :
            /\ wzPending[i].run = wzRun
            /\ db_contracts' = ContractsInsert(db_contracts, wzPending[i].data)]_vars

\* the answer to a failed insert of the mounted wizard
InsertFailedHere ==
  /\ page = "CONTRACT_FLOW"
  /\ db_contracts' = db_contracts
  /\ \E i \in 1..Len(wzPending) :
       wzPending[i].run = wzRun /\ wzPending' = RemoveAt(wzPending, i)

\* a failed insert leaves the wizard on step 3 with the error set, not confirmed
FailureLeavesStep3 ==
  [][InsertFailedHere => (wz'.step = 3 /\ wz'.error /\ ~wz'.isContractConfirmed)]_vars

\* C23: a contract insert is issued only from step 3 of a new contract,
\* reached through step 1 and step 2 in that order, with a payment method
\* chosen and service and professional loaded; the wizard becomes confirmed
\* only in the step that stores its row; and a failed insert leaves the
\* wizard on step 3 with the error set and not confirmed.
C23_InsertFromStep3 ==
  /\ InsertOnlyFromStep3
  /\ StepsInOrder
  /\ ConfirmedOnlyAfterInsert
  /\ FailureLeavesStep3

(***************************************************************************)
(* The dashboard's service list after a mutation                           *)
(***************************************************************************)
\* ids of the rows of a list
IdsOf(list) == {list[i].id : i \in 1..Len(list)}

\* a list without the rows of one id, order kept
WithoutId(list, id) == SelectSeq(list, LAMBDA r : r.id # id)

\* C24: when a service mutation succeeds on the mounted dashboard the list
\* on screen is the previous list patched with the stored row: an insert
\* puts the new row in front, an update replaces the row of the edited id
\* and leaves the others and the order alone, a delete removes the row of
\* that id; no read is started; and the ids on screen stay distinct.
C24_ListPatched ==
  /\ [][(page = "PROFESSIONAL_DASHBOARD" /\ db_services' # db_services) =>
          /\ dash'.fetch = dash.fetch /\ dash'.loading = dash.loading
          /\ Len(db_services') = Len(db_services) + 1 =>
               dash'.services = <<db_services'[Len(db_services')]>> \o dash.services
          /\ Len(db_services') = Len(db_services) =>
               /\ Len(dash'.services) = Len(dash.services)
               /\ \A j \in 1..Len(dash.services) :
                    dash'.services[j] =
                      IF \E i \in 1..Len(db_services) :
                           /\ db_services'[i] # db_services[i]
                           /\ db_services[i].id = dash.services[j].id
                        THEN Val(Single(db_services', dash.services[j].id))
                        ELSE dash.services[j]
          /\ Len(db_services') < Len(db_services) =>
               \E id \in IdsOf(db_services) \ IdsOf(db_services') :
                 dash'.services = WithoutId(dash.services, id)]_vars
  /\ [](page = "PROFESSIONAL_DASHBOARD" =>
          Cardinality(IdsOf(dash.services)) = Len(dash.services))

\* a second service was inserted and is shown in front of the first, and
\* the first was updated in place to the price 0
C24_Witness ==
  /\ DashReady /\ dashPending = <<>>
  /\ Len(dash.services) = 2
  /\ dash.services[1].id = 2 /\ dash.services[2].id = 1
  /\ dash.services[1].price = 50 /\ dash.services[2].price = 0
  /\ dash.services = Reverse(db_services)

\* the answer to a failed update of a service, on the mounted dashboard
UpdateFailedHere ==
  /\ page = "PROFESSIONAL_DASHBOARD"
  /\ db_services' = db_services
  /\ dash'.formError = Some("remote")
  /\ \E i \in 1..Len(dashPending) :
       dashPending[i].kind = "update" /\ dashPending' = RemoveAt(dashPending, i)

\* C26: a failed update of a service leaves the edit target and the form
\* values as they were, so that the next submit updates the same service.
C26_FailedUpdateKeepsTarget ==
  [][UpdateFailedHere =>
       /\ dash'.editingService = dash.editingService
       /\ dash'.newServiceForm = dash.newServiceForm
       /\ dash'.showAddServiceModal = dash.showAddServiceModal]_vars

(***************************************************************************)
(* Failed mutations and the local collections                              *)
(***************************************************************************)
\* the answer to a service mutation after which `services` does not hold
\* its effect: no row added by an insert, the row of an update missing or
\* without the submitted values, the row of a delete still there
ServiceMutationFailed ==
  \E i \in 1..Len(dashPending) :
    LET req == dashPending[i]
    IN  /\ dashPending' = RemoveAt(dashPending, i)
        /\ \/ req.kind = "insert" /\ Len(db_services') = Len(db_services)
           \/ /\ req.kind = "update" /\ db_services' = db_services
              /\ LET r == Single(db_services', req.id)
                 IN  IsNull(r) \/ Val(r) # ([id |-> req.id] @@ req.data)
           \/ req.kind = "delete" /\ req.id \in IdsOf(db_services')

\* the answer to a mark-read after which the row is still unread
MarkReadFailed ==
  \E i \in 1..Len(ntfPending) :
    /\ ntfPending' = RemoveAt(ntfPending, i)
    /\ \E j \in 1..Len(db_notifications') :
         /\ db_notifications'[j].id = ntfPending[i].id
         /\ ~db_notifications'[j].isRead

\* the answer to a review insert after which `reviews` has no new row
ReviewInsertFailed ==
  /\ Len(pvPending') < Len(pvPending)
  /\ db_reviews' = db_reviews

\* C25: a failed mutation leaves the local collection of its view as it
\* was: the dashboard's service list after a failed insert, update or
\* delete of a service, every notification's isRead after a failed
\* mark-read, and the review list and the review modal after a failed
\* insert of a review.
C25_FailureKeepsLocal ==
  /\ [][(InDash /\ ServiceMutationFailed) => dash'.services = dash.services]_vars
  /\ [][(InNotif /\ MarkReadFailed) => ntf'.notifications = ntf.notifications]_vars
  /\ [][(InProfile /\ ReviewInsertFailed) =>
          /\ pv'.professional = pv.professional
          /\ pv'.showReviewModal = pv.showReviewModal]_vars

\* the save of a service was rejected: the form shows the gateway's error,
\* no request is in flight and the list on screen is the stored list
C25_Witness ==
  /\ InDash /\ DashReady /\ dashPending = <<>>
  /\ dash.formError = Some("remote")
  /\ Len(dash.services) = 1 /\ dash.services = db_services

(***************************************************************************)
(* The client home's list and the reads that fill it                       *)
(***************************************************************************)
\* what a read issued for a search term and a category delivers
HomeResult(searchTerm, selectedCategory) ==
  CategoryFilter(ProfilesQuery(HomeProfessionals, searchTerm), selectedCategory)

\* C27: when no read of professionals is pending, the list on the client
\* home is what the read for the current search term and category delivers
\* (or empty, when that read failed), in whatever order the answers came.
C27_LatestReadWins ==
  (page = "CLIENT_HOME" /\ homePending = <<>>) =>
     home.professionals \in {HomeResult(home.searchTerm, home.selectedCategory), <<>>}

\* the professionals of a list with at least one service of a category
WithServiceIn(list, categoryId) ==
  {list[i].id : i \in {j \in 1..Len(list) :
                         \E k \in 1..Len(list[j].services) :
                            list[j].services[k].categoryId = categoryId}}

\* the list of professionals is on screen and no read of it is pending
HomeListShown ==
  /\ HomeRendered /\ ~home.loadingProfs /\ homePending = <<>>

\* C30: with a category selected, the professionals on screen are exactly
\* those of the set fetched for the search term that have a service of the
\* selected category.  (A failed read leaves the list empty.)
C30_CategoryFilterExact ==
  (HomeListShown /\ home.professionals # <<>> /\ ~IsNull(home.selectedCategory)) =>
    {home.professionals[i].id : i \in 1..Len(home.professionals)}
      = WithServiceIn(ProfilesQuery(HomeProfessionals, home.searchTerm),
                      Val(home.selectedCategory))

(***************************************************************************)
(* Clicking a notification                                                 *)
(***************************************************************************)
\* the row of `notifications` with an id
NotificationOf(id) == Val(Single(db_notifications, id))

\* C28: every click on a notification card makes exactly one call of the
\* navigation callback, with the page and the parameters of that
\* notification's link, read or unread; only cards of notifications with a
\* link are clicked; a click issues a mark-read exactly when the
\* notification is unread on screen, and nothing but a click navigates.
C28_ClickNavigatesOnce ==
  /\ [](DOMAIN ntf # {} =>
          /\ Len(ntf.navigated) = Len(ntf.clicked)
          /\ \A k \in 1..Len(ntf.clicked) :
               LET n == NotificationOf(ntf.clicked[k])
               IN  /\ ~IsNull(n.linkTo)
                   /\ ntf.navigated[k].page = Val(n.linkTo).page
                   /\ ntf.navigated[k].params.contractId = Val(n.linkTo).contractId)
  /\ [][(DOMAIN ntf # {} /\ Len(ntf'.clicked) > Len(ntf.clicked)) =>
          LET id == ntf'.clicked[Len(ntf'.clicked)]
          IN  /\ page' = ntf'.navigated[Len(ntf'.navigated)].page
              /\ IF LocalRead(ntf.notifications, id) = {FALSE}
                   THEN ntfPending' = Append(ntfPending, [id |-> id, run |-> ntf.run])
                   ELSE ntfPending' = ntfPending]_vars
  /\ [][(DOMAIN ntf # {} /\ ntf'.clicked = ntf.clicked /\ ntf'.run = ntf.run) =>
          (ntf'.navigated = ntf.navigated /\ page' = page)]_vars

\* the card of a notification that was already read was clicked: the wizard
\* page is shown and no mark-read is in flight
C28_Witness ==
  /\ page = "CONTRACT_FLOW" /\ ntfPending = <<>>
  /\ ntf.clicked = <<2>> /\ ntf.navigated # <<>>
  /\ NotificationOf(2).isRead

(***************************************************************************)
(* Detail views opened without their parameters                            *)
(***************************************************************************)
\* the wizard is mounted without a contractId and without the pair of
\* serviceId and professionalId
WizardWithoutParams == InContract /\ page = "CONTRACT_FLOW" /\ wz.params.kind = "none"

\* the profile view is mounted without a professionalId
ProfileWithoutParams ==
  InProfile /\ page = "PROFESSIONAL_PROFILE_VIEW" /\ IsNull(pv.params)

\* C29: a wizard or a profile view opened without its parameters has read
\* nothing and reads nothing, is not loading and shows its error; nothing
\* changes on it until the error is dismissed, and dismissing it shows
\* CLIENT_HOME.
C29_MissingParamsTerminal ==
  /\ [](WizardWithoutParams =>
          /\ wz.error /\ ~wz.loading /\ wzFetch.pc = "done" /\ wzPending = <<>>
          /\ IsNull(wz.service) /\ IsNull(wz.professional) /\ IsNull(wz.existingContract))
  /\ [](ProfileWithoutParams =>
          /\ ~IsNull(pv.error) /\ ~pv.loading /\ pv.pc = "done" /\ pvPending = <<>>
          /\ IsNull(pv.professional))
  /\ [][WizardWithoutParams => page' = "CLIENT_HOME"]_vars
  /\ [][ProfileWithoutParams => (page' = "CLIENT_HOME" /\ pv' = pv)]_vars

\* the error of a profile view opened without a professionalId was
\* dismissed: the client home is shown and nothing was read
C29_Witness ==
  /\ InProfile /\ page = "CLIENT_HOME"
  /\ IsNull(pv.params) /\ ~IsNull(pv.error) /\ pv.pc = "done"

====
